---- MODULE Spec2Model ----
(***************************************************************************)
(* Model of the transaction builder of casper-client-rs:                   *)
(*   lib/cli/fields_container.rs          FieldsContainer::to_map          *)
(*   lib/types/initiator_addr_and_secret_key.rs  InitiatorAddrAndSecretKey *)
(*   lib/cli/transaction_v1_builder.rs    TransactionV1Builder             *)
(*                                                                         *)
(* Byte strings are sequences of naturals.  A value whose length does not  *)
(* fit the u32 length prefix of the byte encoding cannot be written down   *)
(* in the model, so every variable-length value carries a flag `huge`: the *)
(* encoder returns an error for it, as bytesrepr does (NotRepresentable).  *)
(***************************************************************************)
EXTENDS Integers, Sequences, FiniteSets, TLC

VARIABLES
    clock,      \* the wall clock read by Timestamp::now()
    std_fs_io,  \* the build has feature "std-fs-io" (or is a test build)
    builders,   \* builders[i]: None, or Some(the TransactionV1Builder)
    results,    \* results[i]: None, or Some(what build() returned)
    later,      \* later[i]: the returned transaction after the caller signed it
    signCalls,  \* signCalls[i]: how often the caller signed it
    fc,         \* a FieldsContainer made with FieldsContainer::new, or None
    fcResult,   \* what to_map() returned for fc, or None
    deploy,     \* a deploy read from a file (its hash and approvals)
    deploySigns,\* how often that deploy was signed since
    calls,      \* calls[i]: the constructor called for builder i, and the
                \* last timestamp and the last args a setter was given
    deployBuilds,\* a DeployBuilder and what its build returned, and the call
                \* of a deploy-creating function of the cli and its result
    created,    \* the call of create_transaction and its result, or None
    put         \* the put-transaction command: what build registered, and
                \* the call of run and what it did

vars == <<clock, std_fs_io, builders, results, later, signCalls, fc, fcResult,
          deploy, deploySigns, calls, deployBuilds, created, put>>

(***************************************************************************)
(* Bounds of the model.                                                    *)
(***************************************************************************)
MaxClock == 2
MaxSigns == 2

(***************************************************************************)
(* Option and Result.                                                      *)
(***************************************************************************)
None == <<>>
Some(v) == <<v>>
IsSome(o) == o # None
Unwrap(o) == o[1]

Ok(v) == [kind |-> "Ok", val |-> v]
Err(e) == [kind |-> "Err", err |-> e]
Panic(msg) == [kind |-> "Panic", msg |-> msg]
IsOk(r) == r.kind = "Ok"
IsErr(r) == r.kind = "Err"

(***************************************************************************)
(* The byte encoding (casper_types::bytesrepr::ToBytes), by its contract:  *)
(* a variable-length value is written as its length followed by its        *)
(* content, a variant as its tag followed by its parts; a value whose      *)
(* length is not representable yields an error and no bytes.               *)
(***************************************************************************)
Bytes(body) == [body |-> body, huge |-> FALSE]
HugeBytes == [body |-> <<>>, huge |-> TRUE]

BytesToBytes(b) ==
    IF b.huge THEN Err("NotRepresentable") ELSE Ok(<<Len(b.body)>> \o b.body)

\* A u64, little-endian, in 8 bytes.
RECURSIVE LeBytes(_, _)
LeBytes(n, width) ==
    IF width = 0 THEN <<>> ELSE <<n % 256>> \o LeBytes(n \div 256, width - 1)

U64ToBytes(n) == LeBytes(n, 8)

OptionToBytes(o, enc(_)) ==
    IF IsSome(o) THEN <<1>> \o enc(Unwrap(o)) ELSE <<0>>

\* U512: its significant bytes, little-endian, after their count.
RECURSIVE SignificantBytes(_)
SignificantBytes(n) ==
    IF n = 0 THEN <<>> ELSE <<n % 256>> \o SignificantBytes(n \div 256)

U512ToBytes(n) == <<Len(SignificantBytes(n))>> \o SignificantBytes(n)

\* The names arguments are inserted under, and the byte each is written as
\* (a String is written as its length followed by its bytes; the model
\* writes a name in one byte, its place in this table).
ArgNames ==
    <<"amount", "source", "target", "id", "public_key", "delegation_rate",
      "minimum_delegation_amount", "maximum_delegation_amount",
      "reserved_slots", "delegator", "validator", "new_validator",
      "new_public_key", "reservations", "delegators">>

StringToBytes(s) ==
    <<1, CHOOSE i \in 1..Len(ArgNames) : ArgNames[i] = s>>

\* CLType, and the tag each is written as.
CLTypes ==
    <<"U8", "U32", "U64", "U512", "URef", "PublicKey", "AccountHash",
      "Option<U64>", "List<PublicKey>", "List<Any>">>

CLTypeToBytes(t) == <<CHOOSE i \in 1..Len(CLTypes) : CLTypes[i] = t>>

\* ToBytes of a value of the Rust type a CLType stands for.  A list is given
\* as Bytes(its items) or HugeBytes; every other value is a number, and an
\* Option<u64> an optional number.
ValueToBytes(cl_type, value) ==
    CASE cl_type = "U8" -> Ok(LeBytes(value, 1))
      [] cl_type = "U32" -> Ok(LeBytes(value, 4))
      [] cl_type = "U64" -> Ok(U64ToBytes(value))
      [] cl_type = "U512" -> Ok(U512ToBytes(value))
      [] cl_type = "Option<U64>" -> Ok(OptionToBytes(value, U64ToBytes))
      [] cl_type \in {"List<PublicKey>", "List<Any>"} -> BytesToBytes(value)
      [] OTHER -> Ok(<<value>>)

\* CLValue::from_t: the type of the value and its bytes, or the
\* serialization error.
CLValue_from_t(cl_type, value) ==
    LET bytes == ValueToBytes(cl_type, value) IN
    IF ~IsOk(bytes) THEN Err("CLValueError::Serialization")
    ELSE Ok([cl_type |-> cl_type, bytes |-> bytes.val])

CLValueToBytes(v) == <<Len(v.bytes)>> \o v.bytes \o CLTypeToBytes(v.cl_type)

NamedArg_new(name, cl_value) == [name |-> name, cl_value |-> cl_value]

NamedArgToBytes(a) == StringToBytes(a.name) \o CLValueToBytes(a.cl_value)

\* RuntimeArgs: the named arguments in the order they were inserted.
RuntimeArgs_new == <<>>

\* RuntimeArgs::insert: encode the value, push it under the name.
RuntimeArgs_insert(args, name, cl_type, value) ==
    LET cl_value == CLValue_from_t(cl_type, value) IN
    IF ~IsOk(cl_value) THEN cl_value
    ELSE Ok(Append(args, NamedArg_new(name, cl_value.val)))

RECURSIVE NamedArgsToBytes(_)
NamedArgsToBytes(args) ==
    IF args = <<>> THEN <<>>
    ELSE NamedArgToBytes(Head(args)) \o NamedArgsToBytes(Tail(args))

RuntimeArgsToBytes(args) == <<Len(args)>> \o NamedArgsToBytes(args)

\* TransactionArgs: Named(RuntimeArgs) | Bytesrepr(Bytes).  `named` is the
\* content of the first variant and `data` that of the second.
Named(args) == [tag |-> "Named", named |-> args, data |-> Bytes(<<>>)]
Bytesrepr(bytes) == [tag |-> "Bytesrepr", named |-> <<>>, data |-> bytes]

ArgsToBytes(a) ==
    LET inner == BytesToBytes(a.data) IN
    CASE a.tag = "Named" -> Ok(<<0>> \o RuntimeArgsToBytes(a.named))
      [] ~IsOk(inner) -> inner
      [] OTHER -> Ok(<<1>> \o inner.val)

\* TransactionTarget: Native | Stored{id, runtime} | Session{is_install_upgrade, module_bytes, runtime}
Native == [tag |-> "Native", data |-> Bytes(<<>>)]
\* TransactionRuntimeParams, by the tag each is written as.
VmCasperV1 == 0
VmCasperV2 == 1

\* TransactionInvocationTarget: the variant, the hash or alias, and the
\* optional version (0 for none, else the version plus one).
VersionToBytes(version) == IF IsSome(version) THEN Unwrap(version) + 1 ELSE 0
new_invocable_entity(hash) == <<0, hash, 0>>
new_invocable_entity_alias(alias) == <<1, alias, 0>>
new_package(hash, version) == <<2, hash, VersionToBytes(version)>>
new_package_alias(alias, version) == <<3, alias, VersionToBytes(version)>>

Stored(id, runtime) == [tag |-> "Stored", data |-> Bytes(id \o <<runtime>>)]
Session(is_install_upgrade, module_bytes, runtime) ==
    [tag |-> "Session",
     data |-> [body |-> <<IF is_install_upgrade THEN 1 ELSE 0, runtime>>
                          \o module_bytes.body,
               huge |-> module_bytes.huge]]

TargetToBytes(t) ==
    LET inner == BytesToBytes(t.data) IN
    CASE t.tag = "Native" -> Ok(<<0>>)
      [] ~IsOk(inner) -> inner
      [] t.tag = "Stored" -> Ok(<<1>> \o inner.val)
      [] OTHER -> Ok(<<2>> \o inner.val)

\* TransactionEntryPoint: Call | Custom(String) | Transfer | AddBid | ...
Transfer == [tag |-> "Transfer", data |-> Bytes(<<>>)]
Call == [tag |-> "Call", data |-> Bytes(<<>>)]
Custom(name) == [tag |-> "Custom", data |-> name]
AddBid == [tag |-> "AddBid", data |-> Bytes(<<>>)]
WithdrawBid == [tag |-> "WithdrawBid", data |-> Bytes(<<>>)]
Delegate == [tag |-> "Delegate", data |-> Bytes(<<>>)]
Undelegate == [tag |-> "Undelegate", data |-> Bytes(<<>>)]
Redelegate == [tag |-> "Redelegate", data |-> Bytes(<<>>)]
ActivateBid == [tag |-> "ActivateBid", data |-> Bytes(<<>>)]
ChangeBidPublicKey == [tag |-> "ChangeBidPublicKey", data |-> Bytes(<<>>)]
AddReservations == [tag |-> "AddReservations", data |-> Bytes(<<>>)]
CancelReservations == [tag |-> "CancelReservations", data |-> Bytes(<<>>)]

\* The variants in the order of the tags they are written as, from 0.
EntryPointTags ==
    <<"Call", "Custom", "Transfer", "AddBid", "WithdrawBid", "Delegate",
      "Undelegate", "Redelegate", "ActivateBid", "ChangeBidPublicKey",
      "AddReservations", "CancelReservations">>

EntryPointToBytes(e) ==
    LET inner == BytesToBytes(e.data)
        tag == (CHOOSE i \in 1..Len(EntryPointTags) : EntryPointTags[i] = e.tag) - 1
    IN  CASE e.tag # "Custom" -> Ok(<<tag>>)
          [] ~IsOk(inner) -> inner
          [] OTHER -> Ok(<<tag>> \o inner.val)

\* TransactionScheduling: Standard | FutureEra(EraId) | ...  The encoder's
\* signature is fallible for this type as for the others; `data` that is
\* huge stands for a value on which it reports an error.
Standard == [tag |-> "Standard", data |-> Bytes(<<>>)]
FutureEra(era) == [tag |-> "FutureEra", data |-> era]

SchedulingToBytes(s) ==
    LET inner == BytesToBytes(s.data) IN
    CASE s.tag = "Standard" -> Ok(<<0>>)
      [] ~IsOk(inner) -> inner
      [] OTHER -> Ok(<<1>> \o inner.val)

(***************************************************************************)
(* The decoders (casper_types::bytesrepr::FromBytes), by their contract:   *)
(* each reads the tag and the lengths the encoder wrote and returns the    *)
(* value, or an error when the bytes end early, go on after the value or   *)
(* carry a tag or a name that is not known.                                *)
(***************************************************************************)
\* A length and as many bytes: the bytes and what follows them.
TakeBytes(bytes) ==
    IF bytes = <<>> THEN Err("EarlyEndOfStream")
    ELSE IF Len(bytes) < 1 + bytes[1] THEN Err("EarlyEndOfStream")
    ELSE Ok([val |-> SubSeq(bytes, 2, 1 + bytes[1]),
             rest |-> SubSeq(bytes, 2 + bytes[1], Len(bytes))])

\* A value that must take all the bytes.
Whole(r) ==
    IF ~IsOk(r) THEN r
    ELSE IF r.val.rest # <<>> THEN Err("LeftOverBytes")
    ELSE Ok(r.val.val)

StringFromBytes(bytes) ==
    LET taken == TakeBytes(bytes) IN
    IF ~IsOk(taken) THEN taken
    ELSE IF Len(taken.val.val) # 1 THEN Err("Formatting")
    ELSE IF taken.val.val[1] \notin 1..Len(ArgNames) THEN Err("Formatting")
    ELSE Ok([val |-> ArgNames[taken.val.val[1]], rest |-> taken.val.rest])

CLValueFromBytes(bytes) ==
    LET taken == TakeBytes(bytes) IN
    IF ~IsOk(taken) THEN taken
    ELSE IF taken.val.rest = <<>> THEN Err("EarlyEndOfStream")
    ELSE IF Head(taken.val.rest) \notin 1..Len(CLTypes) THEN Err("Formatting")
    ELSE Ok([val |-> [cl_type |-> CLTypes[Head(taken.val.rest)],
                      bytes |-> taken.val.val],
             rest |-> Tail(taken.val.rest)])

NamedArgFromBytes(bytes) ==
    LET name == StringFromBytes(bytes) IN
    IF ~IsOk(name) THEN name
    ELSE LET cl_value == CLValueFromBytes(name.val.rest) IN
         IF ~IsOk(cl_value) THEN cl_value
         ELSE Ok([val |-> NamedArg_new(name.val.val, cl_value.val.val),
                  rest |-> cl_value.val.rest])

\* `count` named arguments, one after the other.
RECURSIVE NamedArgsFromBytes(_, _)
NamedArgsFromBytes(count, bytes) ==
    IF count = 0 THEN Ok([val |-> <<>>, rest |-> bytes])
    ELSE LET first == NamedArgFromBytes(bytes) IN
         IF ~IsOk(first) THEN first
         ELSE LET others == NamedArgsFromBytes(count - 1, first.val.rest) IN
              IF ~IsOk(others) THEN others
              ELSE Ok([val |-> <<first.val.val>> \o others.val.val,
                       rest |-> others.val.rest])

RuntimeArgsFromBytes(bytes) ==
    IF bytes = <<>> THEN Err("EarlyEndOfStream")
    ELSE NamedArgsFromBytes(Head(bytes), Tail(bytes))

ArgsFromBytes(bytes) ==
    IF bytes = <<>> THEN Err("EarlyEndOfStream")
    ELSE CASE Head(bytes) = 0 ->
                LET args == Whole(RuntimeArgsFromBytes(Tail(bytes))) IN
                IF IsOk(args) THEN Ok(Named(args.val)) ELSE args
           [] Head(bytes) = 1 ->
                LET raw == Whole(TakeBytes(Tail(bytes))) IN
                IF IsOk(raw) THEN Ok(Bytesrepr(Bytes(raw.val))) ELSE raw
           [] OTHER -> Err("Formatting")

TargetFromBytes(bytes) ==
    IF bytes = <<>> THEN Err("EarlyEndOfStream")
    ELSE LET body == Whole(TakeBytes(Tail(bytes))) IN
         CASE Head(bytes) = 0 ->
                IF Tail(bytes) = <<>> THEN Ok(Native) ELSE Err("LeftOverBytes")
           [] ~IsOk(body) -> body
           [] Head(bytes) = 1 ->
                IF Len(body.val) # 4 THEN Err("Formatting")
                ELSE Ok(Stored(SubSeq(body.val, 1, 3), body.val[4]))
           [] Head(bytes) = 2 ->
                IF Len(body.val) < 2 \/ body.val[1] \notin {0, 1} THEN Err("Formatting")
                ELSE Ok(Session(body.val[1] = 1,
                                Bytes(SubSeq(body.val, 3, Len(body.val))),
                                body.val[2]))
           [] OTHER -> Err("Formatting")

EntryPointFromBytes(bytes) ==
    IF bytes = <<>> THEN Err("EarlyEndOfStream")
    ELSE IF Head(bytes) + 1 \notin 1..Len(EntryPointTags) THEN Err("Formatting")
    ELSE LET tag == EntryPointTags[Head(bytes) + 1]
             name == Whole(TakeBytes(Tail(bytes)))
         IN  CASE tag = "Custom" /\ IsOk(name) -> Ok(Custom(Bytes(name.val)))
               [] tag = "Custom" -> name
               [] Tail(bytes) # <<>> -> Err("LeftOverBytes")
               [] OTHER -> Ok([tag |-> tag, data |-> Bytes(<<>>)])

SchedulingFromBytes(bytes) ==
    IF bytes = <<>> THEN Err("EarlyEndOfStream")
    ELSE LET era == Whole(TakeBytes(Tail(bytes))) IN
         CASE Head(bytes) = 0 ->
                IF Tail(bytes) = <<>> THEN Ok(Standard) ELSE Err("LeftOverBytes")
           [] ~IsOk(era) -> era
           [] Head(bytes) = 1 -> Ok(FutureEra(Bytes(era.val)))
           [] OTHER -> Err("Formatting")

(***************************************************************************)
(* lib/cli/fields_container.rs                                             *)
(***************************************************************************)
ARGS_MAP_KEY == 0
TARGET_MAP_KEY == 1
ENTRY_POINT_MAP_KEY == 2
SCHEDULING_MAP_KEY == 3

CouldNotSerializeField(field_index) ==
    [name |-> "CouldNotSerializeField", field_index |-> field_index]

FieldsContainer_new(args, target, entry_point, scheduling) ==
    [args |-> args, target |-> target, entry_point |-> entry_point,
     scheduling |-> scheduling]

\* BTreeMap::new and BTreeMap::insert: a map is a function on its key set.
EmptyMap == [k \in {} |-> <<>>]
MapInsert(map, key, value) ==
    [k \in DOMAIN map \cup {key} |-> IF k = key THEN value ELSE map[k]]

\* Variant: the target's bytes are inserted under the key of the args.
to_map_target_under_args_key(self) ==
    LET a == ArgsToBytes(self.args) IN
    IF ~IsOk(a) THEN Err(CouldNotSerializeField(ARGS_MAP_KEY)) ELSE
    LET map1 == MapInsert(EmptyMap, ARGS_MAP_KEY, a.val)
        t == TargetToBytes(self.target) IN
    IF ~IsOk(t) THEN Err(CouldNotSerializeField(TARGET_MAP_KEY)) ELSE
    LET map2 == MapInsert(map1, ARGS_MAP_KEY, t.val)
        e == EntryPointToBytes(self.entry_point) IN
    IF ~IsOk(e) THEN Err(CouldNotSerializeField(ENTRY_POINT_MAP_KEY)) ELSE
    LET map3 == MapInsert(map2, ENTRY_POINT_MAP_KEY, e.val)
        s == SchedulingToBytes(self.scheduling) IN
    IF ~IsOk(s) THEN Err(CouldNotSerializeField(SCHEDULING_MAP_KEY)) ELSE
    LET map4 == MapInsert(map3, SCHEDULING_MAP_KEY, s.val) IN
    Ok(map4)

\* Variant: all four fields are serialized, then the last failure is reported.
to_map_reports_last_failure(self) ==
    LET a == ArgsToBytes(self.args)
        t == TargetToBytes(self.target)
        e == EntryPointToBytes(self.entry_point)
        s == SchedulingToBytes(self.scheduling)
    IN  IF ~IsOk(s) THEN Err(CouldNotSerializeField(SCHEDULING_MAP_KEY)) ELSE
        IF ~IsOk(e) THEN Err(CouldNotSerializeField(ENTRY_POINT_MAP_KEY)) ELSE
        IF ~IsOk(t) THEN Err(CouldNotSerializeField(TARGET_MAP_KEY)) ELSE
        IF ~IsOk(a) THEN Err(CouldNotSerializeField(ARGS_MAP_KEY)) ELSE
        Ok(MapInsert(MapInsert(MapInsert(MapInsert(EmptyMap,
                ARGS_MAP_KEY, a.val), TARGET_MAP_KEY, t.val),
                ENTRY_POINT_MAP_KEY, e.val), SCHEDULING_MAP_KEY, s.val))

\* Variant: the entry point and the scheduling are inserted under each
\* other's key.
to_map_entry_point_and_scheduling_swapped(self) ==
    LET a == ArgsToBytes(self.args) IN
    IF ~IsOk(a) THEN Err(CouldNotSerializeField(ARGS_MAP_KEY)) ELSE
    LET map1 == MapInsert(EmptyMap, ARGS_MAP_KEY, a.val)
        t == TargetToBytes(self.target) IN
    IF ~IsOk(t) THEN Err(CouldNotSerializeField(TARGET_MAP_KEY)) ELSE
    LET map2 == MapInsert(map1, TARGET_MAP_KEY, t.val)
        e == EntryPointToBytes(self.entry_point) IN
    IF ~IsOk(e) THEN Err(CouldNotSerializeField(ENTRY_POINT_MAP_KEY)) ELSE
    LET map3 == MapInsert(map2, SCHEDULING_MAP_KEY, e.val)
        s == SchedulingToBytes(self.scheduling) IN
    IF ~IsOk(s) THEN Err(CouldNotSerializeField(SCHEDULING_MAP_KEY)) ELSE
    LET map4 == MapInsert(map3, ENTRY_POINT_MAP_KEY, s.val) IN
    Ok(map4)

\* Each `?` returns the error at once; the map built so far is dropped.
to_map(self) ==
    LET a == ArgsToBytes(self.args) IN
    IF ~IsOk(a) THEN Err(CouldNotSerializeField(ARGS_MAP_KEY)) ELSE
    LET map1 == MapInsert(EmptyMap, ARGS_MAP_KEY, a.val)
        t == TargetToBytes(self.target) IN
    IF ~IsOk(t) THEN Err(CouldNotSerializeField(TARGET_MAP_KEY)) ELSE
    LET map2 == MapInsert(map1, TARGET_MAP_KEY, t.val)
        e == EntryPointToBytes(self.entry_point) IN
    IF ~IsOk(e) THEN Err(CouldNotSerializeField(ENTRY_POINT_MAP_KEY)) ELSE
    LET map3 == MapInsert(map2, ENTRY_POINT_MAP_KEY, e.val)
        s == SchedulingToBytes(self.scheduling) IN
    IF ~IsOk(s) THEN Err(CouldNotSerializeField(SCHEDULING_MAP_KEY)) ELSE
    LET map4 == MapInsert(map3, SCHEDULING_MAP_KEY, s.val) IN
    Ok(map4)

(***************************************************************************)
(* lib/cli/arg_handling.rs                                                 *)
(*                                                                         *)
(* A public key, an account hash, a URef, an amount and a rate are numbers *)
(* here, an optional one None or Some(n), a list Bytes(items) or HugeBytes.*)
(***************************************************************************)
RequiredArg_new(name, cl_type) == [name |-> name, cl_type |-> cl_type]
OptionalArg_new(name, cl_type) == [name |-> name, cl_type |-> cl_type]

TRANSFER_ARG_AMOUNT == RequiredArg_new("amount", "U512")
TRANSFER_ARG_SOURCE == OptionalArg_new("source", "URef")
TRANSFER_ARG_TARGET == "target"
TRANSFER_ARG_ID == OptionalArg_new("id", "Option<U64>")

ADD_BID_ARG_PUBLIC_KEY == RequiredArg_new("public_key", "PublicKey")
ADD_BID_ARG_DELEGATION_RATE == RequiredArg_new("delegation_rate", "U8")
ADD_BID_ARG_AMOUNT == RequiredArg_new("amount", "U512")
ADD_BID_ARG_MINIMUM_DELEGATION_AMOUNT ==
    OptionalArg_new("minimum_delegation_amount", "U64")
ADD_BID_ARG_MAXIMUM_DELEGATION_AMOUNT ==
    OptionalArg_new("maximum_delegation_amount", "U64")
ADD_BID_ARG_RESERVED_SLOTS == OptionalArg_new("reserved_slots", "U32")

WITHDRAW_BID_ARG_PUBLIC_KEY == RequiredArg_new("public_key", "PublicKey")
WITHDRAW_BID_ARG_AMOUNT == RequiredArg_new("amount", "U512")

DELEGATE_ARG_DELEGATOR == RequiredArg_new("delegator", "PublicKey")
DELEGATE_ARG_VALIDATOR == RequiredArg_new("validator", "PublicKey")
DELEGATE_ARG_AMOUNT == RequiredArg_new("amount", "U512")

UNDELEGATE_ARG_DELEGATOR == RequiredArg_new("delegator", "PublicKey")
UNDELEGATE_ARG_VALIDATOR == RequiredArg_new("validator", "PublicKey")
UNDELEGATE_ARG_AMOUNT == RequiredArg_new("amount", "U512")

REDELEGATE_ARG_DELEGATOR == RequiredArg_new("delegator", "PublicKey")
REDELEGATE_ARG_VALIDATOR == RequiredArg_new("validator", "PublicKey")
REDELEGATE_ARG_AMOUNT == RequiredArg_new("amount", "U512")
REDELEGATE_ARG_NEW_VALIDATOR == RequiredArg_new("new_validator", "PublicKey")

ACTIVATE_BID_ARG_VALIDATOR == RequiredArg_new("validator", "PublicKey")
CHANGE_BID_PUBLIC_KEY_ARG_PUBLIC_KEY == RequiredArg_new("public_key", "PublicKey")
CHANGE_BID_PUBLIC_KEY_ARG_NEW_PUBLIC_KEY ==
    RequiredArg_new("new_public_key", "PublicKey")
ADD_RESERVATIONS_ARG_RESERVATIONS == RequiredArg_new("reservations", "List<Any>")

CANCEL_RESERVATIONS_ARG_VALIDATOR == RequiredArg_new("validator", "PublicKey")
CANCEL_RESERVATIONS_ARG_DELEGATORS ==
    RequiredArg_new("delegators", "List<PublicKey>")

RequiredArg_insert(self, args, value) ==
    RuntimeArgs_insert(args, self.name, self.cl_type, value)

OptionalArg_insert(self, args, value) ==
    RuntimeArgs_insert(args, self.name, self.cl_type, value)

\* The operator `?`: go on with the value, or return the error.
Try(r, next(_)) == IF IsOk(r) THEN next(r.val) ELSE r

\* TransferTarget: PublicKey(PublicKey) | AccountHash(AccountHash) | URef(URef)
TransferTarget_PublicKey(public_key) == [variant |-> "PublicKey", value |-> public_key]
TransferTarget_AccountHash(account_hash) == [variant |-> "AccountHash", value |-> account_hash]
TransferTarget_URef(uref) == [variant |-> "URef", value |-> uref]

\* Variant: the source is never inserted.
new_transfer_args_without_source(amount, maybe_source, target, maybe_id) ==
    LET r1 == Ok(RuntimeArgs_new)
        r2 == Try(r1, LAMBDA a :
                  RuntimeArgs_insert(a, TRANSFER_ARG_TARGET, target.variant, target.value))
        r3 == Try(r2, LAMBDA a : RequiredArg_insert(TRANSFER_ARG_AMOUNT, a, amount))
    IN  Try(r3, LAMBDA a :
            IF IsSome(maybe_id)
            THEN OptionalArg_insert(TRANSFER_ARG_ID, a, maybe_id)
            ELSE Ok(a))

\* Variant: the id is inserted also when it is None (a wrapped-absent entry).
new_transfer_args_id_always(amount, maybe_source, target, maybe_id) ==
    LET r1 == IF IsSome(maybe_source)
              THEN OptionalArg_insert(TRANSFER_ARG_SOURCE, RuntimeArgs_new, Unwrap(maybe_source))
              ELSE Ok(RuntimeArgs_new)
        r2 == Try(r1, LAMBDA a :
                  RuntimeArgs_insert(a, TRANSFER_ARG_TARGET, target.variant, target.value))
        r3 == Try(r2, LAMBDA a : RequiredArg_insert(TRANSFER_ARG_AMOUNT, a, amount))
    IN  Try(r3, LAMBDA a :
            IF TRUE
            THEN OptionalArg_insert(TRANSFER_ARG_ID, a, maybe_id)
            ELSE Ok(a))

new_transfer_args(amount, maybe_source, target, maybe_id) ==
    LET r1 == IF IsSome(maybe_source)
              THEN OptionalArg_insert(TRANSFER_ARG_SOURCE, RuntimeArgs_new, Unwrap(maybe_source))
              ELSE Ok(RuntimeArgs_new)
        r2 == Try(r1, LAMBDA a :
                  RuntimeArgs_insert(a, TRANSFER_ARG_TARGET, target.variant, target.value))
        r3 == Try(r2, LAMBDA a : RequiredArg_insert(TRANSFER_ARG_AMOUNT, a, amount))
    IN  Try(r3, LAMBDA a :
            IF IsSome(maybe_id)
            THEN OptionalArg_insert(TRANSFER_ARG_ID, a, maybe_id)
            ELSE Ok(a))

new_activate_bid_args(validator) ==
    LET r1 == RequiredArg_insert(ACTIVATE_BID_ARG_VALIDATOR, RuntimeArgs_new, validator)
    IN  Try(r1, LAMBDA a : Ok(a))

new_change_bid_public_key_args(public_key, new_public_key) ==
    LET r1 == RequiredArg_insert(CHANGE_BID_PUBLIC_KEY_ARG_PUBLIC_KEY, RuntimeArgs_new, public_key)
    IN  Try(r1, LAMBDA a :
            RequiredArg_insert(CHANGE_BID_PUBLIC_KEY_ARG_NEW_PUBLIC_KEY, a, new_public_key))

\* Variant: when the delegators do not encode, the container that holds the
\* validator is returned.
new_cancel_reservations_args_partial(validator, delegators) ==
    LET r1 == RequiredArg_insert(CANCEL_RESERVATIONS_ARG_VALIDATOR, RuntimeArgs_new, validator)
        r2 == RequiredArg_insert(CANCEL_RESERVATIONS_ARG_DELEGATORS, r1.val, delegators)
    IN  IF IsOk(r2) THEN r2 ELSE r1

new_add_reservations_args(reservations) ==
    LET r1 == RequiredArg_insert(ADD_RESERVATIONS_ARG_RESERVATIONS, RuntimeArgs_new, reservations)
    IN  Try(r1, LAMBDA a : Ok(a))

new_cancel_reservations_args(validator, delegators) ==
    LET r1 == RequiredArg_insert(CANCEL_RESERVATIONS_ARG_VALIDATOR, RuntimeArgs_new, validator)
    IN  Try(r1, LAMBDA a :
            RequiredArg_insert(CANCEL_RESERVATIONS_ARG_DELEGATORS, a, delegators))

\* Variant: the maximum is inserted under the name of the minimum.
new_add_bid_args_maximum_as_minimum(public_key, delegation_rate, amount, maybe_minimum_delegation_amount, maybe_maximum_delegation_amount, maybe_reserved_slots) ==
    LET r1 == RequiredArg_insert(ADD_BID_ARG_PUBLIC_KEY, RuntimeArgs_new, public_key)
        r2 == Try(r1, LAMBDA a :
                  RequiredArg_insert(ADD_BID_ARG_DELEGATION_RATE, a, delegation_rate))
        r3 == Try(r2, LAMBDA a : RequiredArg_insert(ADD_BID_ARG_AMOUNT, a, amount))
        r4 == Try(r3, LAMBDA a :
                  IF IsSome(maybe_minimum_delegation_amount)
                  THEN OptionalArg_insert(ADD_BID_ARG_MINIMUM_DELEGATION_AMOUNT, a,
                                          Unwrap(maybe_minimum_delegation_amount))
                  ELSE Ok(a))
        r5 == Try(r4, LAMBDA a :
                  IF IsSome(maybe_maximum_delegation_amount)
                  THEN OptionalArg_insert(ADD_BID_ARG_MINIMUM_DELEGATION_AMOUNT, a,
                                          Unwrap(maybe_maximum_delegation_amount))
                  ELSE Ok(a))
    IN  Try(r5, LAMBDA a :
            IF IsSome(maybe_reserved_slots)
            THEN OptionalArg_insert(ADD_BID_ARG_RESERVED_SLOTS, a, Unwrap(maybe_reserved_slots))
            ELSE Ok(a))

new_add_bid_args(public_key, delegation_rate, amount, maybe_minimum_delegation_amount, maybe_maximum_delegation_amount, maybe_reserved_slots) ==
    LET r1 == RequiredArg_insert(ADD_BID_ARG_PUBLIC_KEY, RuntimeArgs_new, public_key)
        r2 == Try(r1, LAMBDA a :
                  RequiredArg_insert(ADD_BID_ARG_DELEGATION_RATE, a, delegation_rate))
        r3 == Try(r2, LAMBDA a : RequiredArg_insert(ADD_BID_ARG_AMOUNT, a, amount))
        r4 == Try(r3, LAMBDA a :
                  IF IsSome(maybe_minimum_delegation_amount)
                  THEN OptionalArg_insert(ADD_BID_ARG_MINIMUM_DELEGATION_AMOUNT, a,
                                          Unwrap(maybe_minimum_delegation_amount))
                  ELSE Ok(a))
        r5 == Try(r4, LAMBDA a :
                  IF IsSome(maybe_maximum_delegation_amount)
                  THEN OptionalArg_insert(ADD_BID_ARG_MAXIMUM_DELEGATION_AMOUNT, a,
                                          Unwrap(maybe_maximum_delegation_amount))
                  ELSE Ok(a))
    IN  Try(r5, LAMBDA a :
            IF IsSome(maybe_reserved_slots)
            THEN OptionalArg_insert(ADD_BID_ARG_RESERVED_SLOTS, a, Unwrap(maybe_reserved_slots))
            ELSE Ok(a))

new_withdraw_bid_args(public_key, amount) ==
    LET r1 == RequiredArg_insert(WITHDRAW_BID_ARG_PUBLIC_KEY, RuntimeArgs_new, public_key)
    IN  Try(r1, LAMBDA a : RequiredArg_insert(WITHDRAW_BID_ARG_AMOUNT, a, amount))

new_delegate_args(delegator, validator, amount) ==
    LET r1 == RequiredArg_insert(DELEGATE_ARG_DELEGATOR, RuntimeArgs_new, delegator)
        r2 == Try(r1, LAMBDA a : RequiredArg_insert(DELEGATE_ARG_VALIDATOR, a, validator))
    IN  Try(r2, LAMBDA a : RequiredArg_insert(DELEGATE_ARG_AMOUNT, a, amount))

new_undelegate_args(delegator, validator, amount) ==
    LET r1 == RequiredArg_insert(UNDELEGATE_ARG_DELEGATOR, RuntimeArgs_new, delegator)
        r2 == Try(r1, LAMBDA a : RequiredArg_insert(UNDELEGATE_ARG_VALIDATOR, a, validator))
    IN  Try(r2, LAMBDA a : RequiredArg_insert(UNDELEGATE_ARG_AMOUNT, a, amount))

new_redelegate_args(delegator, validator, amount, new_validator) ==
    LET r1 == RequiredArg_insert(REDELEGATE_ARG_DELEGATOR, RuntimeArgs_new, delegator)
        r2 == Try(r1, LAMBDA a : RequiredArg_insert(REDELEGATE_ARG_VALIDATOR, a, validator))
        r3 == Try(r2, LAMBDA a : RequiredArg_insert(REDELEGATE_ARG_AMOUNT, a, amount))
    IN  Try(r3, LAMBDA a :
            RequiredArg_insert(REDELEGATE_ARG_NEW_VALIDATOR, a, new_validator))

(***************************************************************************)
(* Keys, addresses, hashing and signing (casper_types), by their contract. *)
(***************************************************************************)
\* PublicKey::from(&SecretKey): one public key per secret key.
PublicKeyFrom(secret_key) == 100 + secret_key

InitiatorAddr_PublicKey(public_key) == [tag |-> "PublicKey", id |-> public_key]
InitiatorAddr_AccountHash(hash) == [tag |-> "AccountHash", id |-> hash]

InitiatorAddrToBytes(addr) ==
    <<IF addr.tag = "PublicKey" THEN 0 ELSE 1, addr.id>>

\* Digest::hash: a checksum of the bytes, folded left to right.
RECURSIVE DigestFold(_, _)
DigestFold(acc, bytes) ==
    IF bytes = <<>> THEN acc
    ELSE IF Len(bytes) = 1 THEN (acc * 31 + bytes[1] + 1) % 65521
    ELSE LET mid == Len(bytes) \div 2
             left == DigestFold(acc, SubSeq(bytes, 1, mid))
         IN  IF left >= 0 THEN DigestFold(left, SubSeq(bytes, mid + 1, Len(bytes)))
             ELSE left

Digest_hash(bytes) == DigestFold(7, bytes)

\* A signature is determined by the signing key and the message signed.
Signature(secret_key, message) == [by |-> secret_key, over |-> message]

\* Approval::create(hash, secret_key)
Approval_create(hash, secret_key) ==
    [signer |-> PublicKeyFrom(secret_key),
     signature |-> Signature(secret_key, hash)]

(***************************************************************************)
(* lib/types/initiator_addr_and_secret_key.rs                              *)
(***************************************************************************)
Both(initiator_addr, secret_key) ==
    [variant |-> "Both", initiator_addr |-> Some(initiator_addr),
     secret_key |-> Some(secret_key)]
InitiatorAddrOnly(initiator_addr) ==
    [variant |-> "InitiatorAddr", initiator_addr |-> Some(initiator_addr),
     secret_key |-> None]
SecretKeyOnly(secret_key) ==
    [variant |-> "SecretKey", initiator_addr |-> None,
     secret_key |-> Some(secret_key)]

\* Variant: the address is derived from the key whenever there is a key.
initiator_addr_from_key_first(self) ==
    CASE self.variant \in {"Both", "SecretKey"} ->
            InitiatorAddr_PublicKey(PublicKeyFrom(Unwrap(self.secret_key)))
      [] self.variant = "InitiatorAddr" -> Unwrap(self.initiator_addr)

initiator_addr(self) ==
    CASE self.variant \in {"Both", "InitiatorAddr"} -> Unwrap(self.initiator_addr)
      [] self.variant = "SecretKey" ->
            InitiatorAddr_PublicKey(PublicKeyFrom(Unwrap(self.secret_key)))

\* Variant: only the variant made of a key alone yields a key to sign with.
secret_key_only_when_alone(self) ==
    CASE self.variant = "SecretKey" -> Some(Unwrap(self.secret_key))
      [] self.variant \in {"Both", "InitiatorAddr"} -> None

secret_key(self) ==
    CASE self.variant \in {"Both", "SecretKey"} -> Some(Unwrap(self.secret_key))
      [] self.variant = "InitiatorAddr" -> None

(***************************************************************************)
(* TransactionV1Payload and TransactionV1 (casper_types), by contract.     *)
(***************************************************************************)
TransactionV1Payload_new(chain_name, timestamp, ttl, pricing_mode, addr, fields) ==
    [chain_name |-> chain_name, timestamp |-> timestamp, ttl |-> ttl,
     pricing_mode |-> pricing_mode, initiator_addr |-> addr, fields |-> fields]

PricingModeToBytes(pm) ==
    <<0, pm.gas_price_tolerance, pm.additional_computation_factor>>

\* The (key, bytes) entries of a fields map, in ascending key order.
RECURSIVE FieldsToBytes(_, _)
FieldsToBytes(fields, keys) ==
    IF keys = {} THEN <<>>
    ELSE LET k == CHOOSE x \in keys : \A y \in keys : x <= y IN
         <<k, Len(fields[k])>> \o fields[k] \o FieldsToBytes(fields, keys \ {k})

PayloadToBytes(payload) ==
    LET name == BytesToBytes(payload.chain_name) IN
    IF ~IsOk(name) THEN name
    ELSE Ok(name.val
            \o U64ToBytes(payload.timestamp)
            \o U64ToBytes(payload.ttl)
            \o PricingModeToBytes(payload.pricing_mode)
            \o InitiatorAddrToBytes(payload.initiator_addr)
            \o <<Cardinality(DOMAIN payload.fields)>>
            \o FieldsToBytes(payload.fields, DOMAIN payload.fields))

TransactionV1_new(hash, payload, approvals) ==
    [hash |-> hash, payload |-> payload, approvals |-> approvals]

\* TransactionV1::sign: the approval of the hash by the key joins the set.
TransactionV1_sign(transaction, key) ==
    [transaction EXCEPT
        !.approvals = @ \cup {Approval_create(transaction.hash, key)}]

(***************************************************************************)
(* lib/cli/transaction_v1_builder.rs                                       *)
(***************************************************************************)
DEFAULT_TTL == 30 * 60 * 1000
DEFAULT_PRICING_MODE ==
    [tag |-> "Fixed", gas_price_tolerance |-> 5, additional_computation_factor |-> 0]
DEFAULT_SCHEDULING == Standard

MissingInitiatorAddr == [name |-> "MissingInitiatorAddr", field_index |-> None]
MissingChainName == [name |-> "MissingChainName", field_index |-> None]
BuilderCouldNotSerializeField(field_index) ==
    [name |-> "CouldNotSerializeField", field_index |-> Some(field_index)]

\* Variant: the default time to live counted in seconds.
TransactionV1Builder_new_ttl_in_seconds ==
    [args |-> Named(RuntimeArgs_new),
     entry_point |-> Transfer,
     target |-> Native,
     scheduling |-> Standard,
     chain_name |-> None,
     timestamp |-> IF std_fs_io THEN clock ELSE 0,
     ttl |-> 30 * 60,
     pricing_mode |-> DEFAULT_PRICING_MODE,
     initiator_addr |-> None,
     secret_key |-> None]

\* Timestamp::now() with feature std-fs-io (or in tests), Timestamp::zero() without
TransactionV1Builder_new ==
    [args |-> Named(RuntimeArgs_new),
     entry_point |-> Transfer,
     target |-> Native,
     scheduling |-> Standard,
     chain_name |-> None,
     timestamp |-> IF std_fs_io THEN clock ELSE 0,
     ttl |-> DEFAULT_TTL,
     pricing_mode |-> DEFAULT_PRICING_MODE,
     initiator_addr |-> None,
     secret_key |-> None]

with_chain_name(self, chain_name) == [self EXCEPT !.chain_name = Some(chain_name)]
with_timestamp(self, timestamp) == [self EXCEPT !.timestamp = timestamp]
with_ttl(self, ttl) == [self EXCEPT !.ttl = ttl]
with_pricing_mode(self, pricing_mode) == [self EXCEPT !.pricing_mode = pricing_mode]
with_initiator_addr(self, addr) == [self EXCEPT !.initiator_addr = Some(addr)]
with_secret_key(self, key) == [self EXCEPT !.secret_key = Some(key)]
\* Variant: named arguments are added to the named arguments already there.
with_runtime_args_extends(self, args) ==
    [self EXCEPT !.args = IF @.tag = "Named" THEN Named(@.named \o args)
                          ELSE Named(args)]

with_runtime_args(self, args) == [self EXCEPT !.args = Named(args)]
with_chunked_args(self, args) == [self EXCEPT !.args = Bytesrepr(args)]
\* Variant: a new entry point brings the builder back to the native target.
with_entry_point_resets_target(self, entry_point) ==
    [self EXCEPT !.entry_point = entry_point, !.target = Native]

with_entry_point(self, entry_point) == [self EXCEPT !.entry_point = entry_point]

\* Variant: the hash is taken once the transaction is signed, approvals included.
build_transaction_inner_hashes_approvals(chain_name, timestamp, ttl, pricing_mode, fields, initiator_addr_and_secret_key) ==
    LET addr == initiator_addr(initiator_addr_and_secret_key)
        transaction_v1_payload ==
            TransactionV1Payload_new(chain_name, timestamp, ttl, pricing_mode,
                                     addr, fields)
        bytes == PayloadToBytes(transaction_v1_payload)
    IN  IF ~IsOk(bytes) THEN Panic("should serialize body")
        ELSE
        LET key == secret_key(initiator_addr_and_secret_key)
            signers == IF IsSome(key) THEN <<PublicKeyFrom(Unwrap(key))>> ELSE <<>>
            hash == Digest_hash(bytes.val \o <<Len(signers)>> \o signers)
            transaction == TransactionV1_new(hash, transaction_v1_payload, {})
        IN  IF IsSome(key) THEN Ok(TransactionV1_sign(transaction, Unwrap(key)))
            ELSE Ok(transaction)

\* Variant: the approval made by build signs a digest of the hash, not the hash.
build_transaction_inner_signs_rehash(chain_name, timestamp, ttl, pricing_mode, fields, initiator_addr_and_secret_key) ==
    LET addr == initiator_addr(initiator_addr_and_secret_key)
        transaction_v1_payload ==
            TransactionV1Payload_new(chain_name, timestamp, ttl, pricing_mode,
                                     addr, fields)
        bytes == PayloadToBytes(transaction_v1_payload)
    IN  IF ~IsOk(bytes) THEN Panic("should serialize body")
        ELSE
        LET hash == Digest_hash(bytes.val)
            key == secret_key(initiator_addr_and_secret_key)
        IN  IF IsSome(key)
            THEN Ok(TransactionV1_new(hash, transaction_v1_payload,
                        {[signer |-> PublicKeyFrom(Unwrap(key)),
                          signature |-> Signature(Unwrap(key), Digest_hash(<<hash>>))]}))
            ELSE Ok(TransactionV1_new(hash, transaction_v1_payload, {}))

\* Variant: the payload is stamped with the time of the build.
build_transaction_inner_stamps_now(chain_name, timestamp, ttl, pricing_mode, fields, initiator_addr_and_secret_key) ==
    LET addr == initiator_addr(initiator_addr_and_secret_key)
        transaction_v1_payload ==
            TransactionV1Payload_new(chain_name, clock, ttl, pricing_mode,
                                     addr, fields)
        bytes == PayloadToBytes(transaction_v1_payload)
    IN  IF ~IsOk(bytes) THEN Panic("should serialize body")
        ELSE
        LET hash == Digest_hash(bytes.val)
            transaction == TransactionV1_new(hash, transaction_v1_payload, {})
            key == secret_key(initiator_addr_and_secret_key)
        IN  IF IsSome(key) THEN Ok(TransactionV1_sign(transaction, Unwrap(key)))
            ELSE Ok(transaction)

build_transaction_inner(chain_name, timestamp, ttl, pricing_mode, fields, initiator_addr_and_secret_key) ==
    LET addr == initiator_addr(initiator_addr_and_secret_key)
        transaction_v1_payload ==
            TransactionV1Payload_new(chain_name, timestamp, ttl, pricing_mode,
                                     addr, fields)
        bytes == PayloadToBytes(transaction_v1_payload)
    IN  IF ~IsOk(bytes) THEN Panic("should serialize body")
        ELSE
        LET hash == Digest_hash(bytes.val)
            transaction == TransactionV1_new(hash, transaction_v1_payload, {})
            key == secret_key(initiator_addr_and_secret_key)
        IN  IF IsSome(key) THEN Ok(TransactionV1_sign(transaction, Unwrap(key)))
            ELSE Ok(transaction)

\* Variant: the chain name is required before the identity is resolved.
do_build_chain_name_first(self) ==
    IF self.chain_name = None THEN Err(MissingChainName) ELSE
    IF self.initiator_addr = None /\ self.secret_key = None
    THEN Err(MissingInitiatorAddr)
    ELSE
    LET initiator_addr_and_secret_key ==
            CASE IsSome(self.initiator_addr) /\ IsSome(self.secret_key) ->
                    Both(Unwrap(self.initiator_addr), Unwrap(self.secret_key))
              [] IsSome(self.initiator_addr) /\ self.secret_key = None ->
                    InitiatorAddrOnly(Unwrap(self.initiator_addr))
              [] OTHER -> SecretKeyOnly(Unwrap(self.secret_key))
        container == to_map(FieldsContainer_new(self.args, self.target,
                                                self.entry_point, self.scheduling))
    IN
    IF ~IsOk(container)
    THEN Err(BuilderCouldNotSerializeField(container.err.field_index))
    ELSE build_transaction_inner(Unwrap(self.chain_name), self.timestamp, self.ttl,
                                 self.pricing_mode, container.val,
                                 initiator_addr_and_secret_key)

\* Variant: the fields are serialized before the chain name is required.
do_build_fields_first(self) ==
    IF self.initiator_addr = None /\ self.secret_key = None
    THEN Err(MissingInitiatorAddr)
    ELSE
    LET initiator_addr_and_secret_key ==
            CASE IsSome(self.initiator_addr) /\ IsSome(self.secret_key) ->
                    Both(Unwrap(self.initiator_addr), Unwrap(self.secret_key))
              [] IsSome(self.initiator_addr) /\ self.secret_key = None ->
                    InitiatorAddrOnly(Unwrap(self.initiator_addr))
              [] OTHER -> SecretKeyOnly(Unwrap(self.secret_key))
        container == to_map(FieldsContainer_new(self.args, self.target,
                                                self.entry_point, self.scheduling))
    IN
    IF ~IsOk(container)
    THEN Err(BuilderCouldNotSerializeField(container.err.field_index))
    ELSE
    IF self.chain_name = None THEN Err(MissingChainName) ELSE
    build_transaction_inner(Unwrap(self.chain_name), self.timestamp, self.ttl,
                            self.pricing_mode, container.val,
                            initiator_addr_and_secret_key)

\* Variant: the failure of a field is reported as that of the first field.
do_build_reports_first_field(self) ==
    IF self.initiator_addr = None /\ self.secret_key = None
    THEN Err(MissingInitiatorAddr)
    ELSE
    LET initiator_addr_and_secret_key ==
            CASE IsSome(self.initiator_addr) /\ IsSome(self.secret_key) ->
                    Both(Unwrap(self.initiator_addr), Unwrap(self.secret_key))
              [] IsSome(self.initiator_addr) /\ self.secret_key = None ->
                    InitiatorAddrOnly(Unwrap(self.initiator_addr))
              [] OTHER -> SecretKeyOnly(Unwrap(self.secret_key))
    IN
    IF self.chain_name = None THEN Err(MissingChainName) ELSE
    LET chain_name == Unwrap(self.chain_name)
        container == to_map(FieldsContainer_new(self.args, self.target,
                                                self.entry_point, self.scheduling))
    IN
    IF ~IsOk(container)
    THEN Err(BuilderCouldNotSerializeField(ARGS_MAP_KEY))
    ELSE build_transaction_inner(chain_name, self.timestamp, self.ttl,
                                 self.pricing_mode, container.val,
                                 initiator_addr_and_secret_key)

do_build(self) ==
    IF self.initiator_addr = None /\ self.secret_key = None
    THEN Err(MissingInitiatorAddr)
    ELSE
    LET initiator_addr_and_secret_key ==
            CASE IsSome(self.initiator_addr) /\ IsSome(self.secret_key) ->
                    Both(Unwrap(self.initiator_addr), Unwrap(self.secret_key))
              [] IsSome(self.initiator_addr) /\ self.secret_key = None ->
                    InitiatorAddrOnly(Unwrap(self.initiator_addr))
              [] OTHER -> SecretKeyOnly(Unwrap(self.secret_key))
    IN
    IF self.chain_name = None THEN Err(MissingChainName) ELSE
    LET chain_name == Unwrap(self.chain_name)
        container == to_map(FieldsContainer_new(self.args, self.target,
                                                self.entry_point, self.scheduling))
    IN
    IF ~IsOk(container)
    THEN Err(BuilderCouldNotSerializeField(container.err.field_index))
    ELSE build_transaction_inner(chain_name, self.timestamp, self.ttl,
                                 self.pricing_mode, container.val,
                                 initiator_addr_and_secret_key)

\* Variant: the builders share a flag that the first build sets, and a
\* build that finds it set fails.
build_once_for_all(self) ==
    IF \E j \in DOMAIN results : results[j] # None
    THEN Err(MissingChainName)
    ELSE do_build(self)

build(self) == do_build(self)

(***************************************************************************)
(* Inputs.                                                                 *)
(***************************************************************************)
Ids == {1, 2}

ChainNames == {Bytes(<<1>>), HugeBytes}
Timestamps == {3}
Ttls == {60 * 60 * 1000}
PricingModes ==
    {[tag |-> "Fixed", gas_price_tolerance |-> 10, additional_computation_factor |-> 0]}
SecretKeys == {1, 2}
InitiatorAddrs == {InitiatorAddr_PublicKey(PublicKeyFrom(1)), InitiatorAddr_AccountHash(9)}
RuntimeArgsValues ==
    {RuntimeArgs_new,
     <<NamedArg_new("amount", [cl_type |-> "U512", bytes |-> U512ToBytes(1)])>>}
ChunkedArgsValues == {Bytes(<<9>>), HugeBytes}
EntryPointNames == {Bytes(<<3>>), HugeBytes}
EntryPoints == {Transfer, Custom(HugeBytes)}
ModuleBytesValues == {Bytes(<<4>>), HugeBytes}
InvocationTargets == {new_invocable_entity(1)}

\* Narrower choices, where several objects are configured side by side.
PairChainNames == {Bytes(<<1>>)}
PairInitiatorAddrs == {InitiatorAddr_AccountHash(9)}

(***************************************************************************)
(* Operations on builder i.  A builder is consumed by build: once          *)
(* results[i] is set, builders[i] keeps the parameters build was called on *)
(* and nothing more can be done with it.                                   *)
(***************************************************************************)
Live(i) == IsSome(builders[i]) /\ results[i] = None

\* The constructors of the native operations: the arguments are encoded
\* first, and their error is the constructor's.
new_transfer(amount, maybe_source, target, maybe_id) ==
    LET args == new_transfer_args(amount, maybe_source, target, maybe_id) IN
    IF ~IsOk(args) THEN args
    ELSE Ok([TransactionV1Builder_new EXCEPT
                !.args = Named(args.val),
                !.target = Native,
                !.entry_point = Transfer,
                !.scheduling = DEFAULT_SCHEDULING])

new_add_bid(public_key, delegation_rate, amount, minimum_delegation_amount, maximum_delegation_amount, reserved_slots) ==
    LET args == new_add_bid_args(public_key, delegation_rate, amount, minimum_delegation_amount, maximum_delegation_amount, reserved_slots) IN
    IF ~IsOk(args) THEN args
    ELSE Ok([TransactionV1Builder_new EXCEPT
                !.args = Named(args.val),
                !.target = Native,
                !.entry_point = AddBid,
                !.scheduling = DEFAULT_SCHEDULING])

new_withdraw_bid(public_key, amount) ==
    LET args == new_withdraw_bid_args(public_key, amount) IN
    IF ~IsOk(args) THEN args
    ELSE Ok([TransactionV1Builder_new EXCEPT
                !.args = Named(args.val),
                !.target = Native,
                !.entry_point = WithdrawBid,
                !.scheduling = DEFAULT_SCHEDULING])

new_delegate(delegator, validator, amount) ==
    LET args == new_delegate_args(delegator, validator, amount) IN
    IF ~IsOk(args) THEN args
    ELSE Ok([TransactionV1Builder_new EXCEPT
                !.args = Named(args.val),
                !.target = Native,
                !.entry_point = Delegate,
                !.scheduling = DEFAULT_SCHEDULING])

\* Variant: the entry point of the operation next to it.
new_undelegate_as_delegate(delegator, validator, amount) ==
    LET args == new_undelegate_args(delegator, validator, amount) IN
    IF ~IsOk(args) THEN args
    ELSE Ok([TransactionV1Builder_new EXCEPT
                !.args = Named(args.val),
                !.target = Native,
                !.entry_point = Delegate,
                !.scheduling = DEFAULT_SCHEDULING])

new_undelegate(delegator, validator, amount) ==
    LET args == new_undelegate_args(delegator, validator, amount) IN
    IF ~IsOk(args) THEN args
    ELSE Ok([TransactionV1Builder_new EXCEPT
                !.args = Named(args.val),
                !.target = Native,
                !.entry_point = Undelegate,
                !.scheduling = DEFAULT_SCHEDULING])

new_redelegate(delegator, validator, amount, new_validator) ==
    LET args == new_redelegate_args(delegator, validator, amount, new_validator) IN
    IF ~IsOk(args) THEN args
    ELSE Ok([TransactionV1Builder_new EXCEPT
                !.args = Named(args.val),
                !.target = Native,
                !.entry_point = Redelegate,
                !.scheduling = DEFAULT_SCHEDULING])

new_activate_bid(validator) ==
    LET args == new_activate_bid_args(validator) IN
    IF ~IsOk(args) THEN args
    ELSE Ok([TransactionV1Builder_new EXCEPT
                !.args = Named(args.val),
                !.target = Native,
                !.entry_point = ActivateBid,
                !.scheduling = DEFAULT_SCHEDULING])

new_change_bid_public_key(public_key, new_public_key) ==
    LET args == new_change_bid_public_key_args(public_key, new_public_key) IN
    IF ~IsOk(args) THEN args
    ELSE Ok([TransactionV1Builder_new EXCEPT
                !.args = Named(args.val),
                !.target = Native,
                !.entry_point = ChangeBidPublicKey,
                !.scheduling = DEFAULT_SCHEDULING])

new_add_reservations(reservations) ==
    LET args == new_add_reservations_args(reservations) IN
    IF ~IsOk(args) THEN args
    ELSE Ok([TransactionV1Builder_new EXCEPT
                !.args = Named(args.val),
                !.target = Native,
                !.entry_point = AddReservations,
                !.scheduling = DEFAULT_SCHEDULING])

new_cancel_reservations(validator, delegators) ==
    LET args == new_cancel_reservations_args(validator, delegators) IN
    IF ~IsOk(args) THEN args
    ELSE Ok([TransactionV1Builder_new EXCEPT
                !.args = Named(args.val),
                !.target = Native,
                !.entry_point = CancelReservations,
                !.scheduling = DEFAULT_SCHEDULING])

\* What calls[i] holds before any call, and after a constructor was called.
NoCalls == [ctor |-> None, timestamp |-> None, args |-> None]
Called(op, params, result) ==
    Some([op |-> op, params |-> params, at |-> clock, result |-> result.kind,
          err |-> IF result.kind = "Err" THEN Some(result.err) ELSE None])

New(i) ==
    /\ calls[i].ctor = None
    /\ builders' = [builders EXCEPT ![i] = Some(TransactionV1Builder_new)]
    /\ calls' = [calls EXCEPT ![i].ctor = Called("new", <<>>, Ok(<<>>))]
    /\ UNCHANGED <<clock, std_fs_io, results, later, signCalls, fc, fcResult, deploy, deploySigns, deployBuilds, created, put>>

new_targeting_stored(id, entry_point, runtime) ==
    [TransactionV1Builder_new EXCEPT
        !.args = Named(RuntimeArgs_new),
        !.target = Stored(id, runtime),
        !.entry_point = Custom(entry_point),
        !.scheduling = DEFAULT_SCHEDULING]

new_targeting_invocable_entity(hash, entry_point, runtime) ==
    LET id == new_invocable_entity(hash) IN
    new_targeting_stored(id, entry_point, runtime)

new_targeting_invocable_entity_via_alias(alias, entry_point, runtime) ==
    LET id == new_invocable_entity_alias(alias) IN
    new_targeting_stored(id, entry_point, runtime)

new_targeting_package(hash, version, entry_point, runtime) ==
    LET id == new_package(hash, version) IN
    new_targeting_stored(id, entry_point, runtime)

new_targeting_package_via_alias(alias, version, entry_point, runtime) ==
    LET id == new_package_alias(alias, version) IN
    new_targeting_stored(id, entry_point, runtime)

new_session(is_install_upgrade, module_bytes, runtime) ==
    [TransactionV1Builder_new EXCEPT
        !.args = Named(RuntimeArgs_new),
        !.target = Session(is_install_upgrade, module_bytes, runtime),
        !.entry_point = Call,
        !.scheduling = DEFAULT_SCHEDULING]

NewTargetingStored(i, id, entry_point, runtime) ==
    /\ calls[i].ctor = None
    /\ builders' = [builders EXCEPT ![i] = Some(new_targeting_stored(id, entry_point, runtime))]
    /\ calls' = [calls EXCEPT ![i].ctor =
                    Called("new_targeting_stored",
                           [id |-> id, entry_point |-> entry_point, runtime |-> runtime],
                           Ok(<<>>))]
    /\ UNCHANGED <<clock, std_fs_io, results, later, signCalls, fc, fcResult, deploy, deploySigns, deployBuilds, created, put>>

NewSession(i, is_install_upgrade, module_bytes, runtime) ==
    /\ calls[i].ctor = None
    /\ builders' = [builders EXCEPT ![i] = Some(new_session(is_install_upgrade, module_bytes, runtime))]
    /\ calls' = [calls EXCEPT ![i].ctor =
                    Called("new_session",
                           [is_install_upgrade |-> is_install_upgrade,
                            module_bytes |-> module_bytes, runtime |-> runtime],
                           Ok(<<>>))]
    /\ UNCHANGED <<clock, std_fs_io, results, later, signCalls, fc, fcResult, deploy, deploySigns, deployBuilds, created, put>>

NewTransfer(i, amount, maybe_source, target, maybe_id) ==
    LET r == new_transfer(amount, maybe_source, target, maybe_id) IN
    /\ calls[i].ctor = None
    /\ builders' = [builders EXCEPT ![i] = IF IsOk(r) THEN Some(r.val) ELSE None]
    /\ calls' = [calls EXCEPT ![i].ctor = Called("new_transfer", [amount |-> amount, maybe_source |-> maybe_source, target |-> target, maybe_id |-> maybe_id], r)]
    /\ UNCHANGED <<clock, std_fs_io, results, later, signCalls, fc, fcResult, deploy, deploySigns, deployBuilds, created, put>>

NewAddBid(i, public_key, delegation_rate, amount, minimum_delegation_amount, maximum_delegation_amount, reserved_slots) ==
    LET r == new_add_bid(public_key, delegation_rate, amount, minimum_delegation_amount, maximum_delegation_amount, reserved_slots) IN
    /\ calls[i].ctor = None
    /\ builders' = [builders EXCEPT ![i] = IF IsOk(r) THEN Some(r.val) ELSE None]
    /\ calls' = [calls EXCEPT ![i].ctor = Called("new_add_bid", [public_key |-> public_key, delegation_rate |-> delegation_rate, amount |-> amount, minimum_delegation_amount |-> minimum_delegation_amount, maximum_delegation_amount |-> maximum_delegation_amount, reserved_slots |-> reserved_slots], r)]
    /\ UNCHANGED <<clock, std_fs_io, results, later, signCalls, fc, fcResult, deploy, deploySigns, deployBuilds, created, put>>

NewWithdrawBid(i, public_key, amount) ==
    LET r == new_withdraw_bid(public_key, amount) IN
    /\ calls[i].ctor = None
    /\ builders' = [builders EXCEPT ![i] = IF IsOk(r) THEN Some(r.val) ELSE None]
    /\ calls' = [calls EXCEPT ![i].ctor = Called("new_withdraw_bid", [public_key |-> public_key, amount |-> amount], r)]
    /\ UNCHANGED <<clock, std_fs_io, results, later, signCalls, fc, fcResult, deploy, deploySigns, deployBuilds, created, put>>

NewDelegate(i, delegator, validator, amount) ==
    LET r == new_delegate(delegator, validator, amount) IN
    /\ calls[i].ctor = None
    /\ builders' = [builders EXCEPT ![i] = IF IsOk(r) THEN Some(r.val) ELSE None]
    /\ calls' = [calls EXCEPT ![i].ctor = Called("new_delegate", [delegator |-> delegator, validator |-> validator, amount |-> amount], r)]
    /\ UNCHANGED <<clock, std_fs_io, results, later, signCalls, fc, fcResult, deploy, deploySigns, deployBuilds, created, put>>

NewUndelegate(i, delegator, validator, amount) ==
    LET r == new_undelegate(delegator, validator, amount) IN
    /\ calls[i].ctor = None
    /\ builders' = [builders EXCEPT ![i] = IF IsOk(r) THEN Some(r.val) ELSE None]
    /\ calls' = [calls EXCEPT ![i].ctor = Called("new_undelegate", [delegator |-> delegator, validator |-> validator, amount |-> amount], r)]
    /\ UNCHANGED <<clock, std_fs_io, results, later, signCalls, fc, fcResult, deploy, deploySigns, deployBuilds, created, put>>

NewRedelegate(i, delegator, validator, amount, new_validator) ==
    LET r == new_redelegate(delegator, validator, amount, new_validator) IN
    /\ calls[i].ctor = None
    /\ builders' = [builders EXCEPT ![i] = IF IsOk(r) THEN Some(r.val) ELSE None]
    /\ calls' = [calls EXCEPT ![i].ctor = Called("new_redelegate", [delegator |-> delegator, validator |-> validator, amount |-> amount, new_validator |-> new_validator], r)]
    /\ UNCHANGED <<clock, std_fs_io, results, later, signCalls, fc, fcResult, deploy, deploySigns, deployBuilds, created, put>>

NewActivateBid(i, validator) ==
    LET r == new_activate_bid(validator) IN
    /\ calls[i].ctor = None
    /\ builders' = [builders EXCEPT ![i] = IF IsOk(r) THEN Some(r.val) ELSE None]
    /\ calls' = [calls EXCEPT ![i].ctor = Called("new_activate_bid", [validator |-> validator], r)]
    /\ UNCHANGED <<clock, std_fs_io, results, later, signCalls, fc, fcResult, deploy, deploySigns, deployBuilds, created, put>>

NewChangeBidPublicKey(i, public_key, new_public_key) ==
    LET r == new_change_bid_public_key(public_key, new_public_key) IN
    /\ calls[i].ctor = None
    /\ builders' = [builders EXCEPT ![i] = IF IsOk(r) THEN Some(r.val) ELSE None]
    /\ calls' = [calls EXCEPT ![i].ctor = Called("new_change_bid_public_key", [public_key |-> public_key, new_public_key |-> new_public_key], r)]
    /\ UNCHANGED <<clock, std_fs_io, results, later, signCalls, fc, fcResult, deploy, deploySigns, deployBuilds, created, put>>

NewAddReservations(i, reservations) ==
    LET r == new_add_reservations(reservations) IN
    /\ calls[i].ctor = None
    /\ builders' = [builders EXCEPT ![i] = IF IsOk(r) THEN Some(r.val) ELSE None]
    /\ calls' = [calls EXCEPT ![i].ctor = Called("new_add_reservations", [reservations |-> reservations], r)]
    /\ UNCHANGED <<clock, std_fs_io, results, later, signCalls, fc, fcResult, deploy, deploySigns, deployBuilds, created, put>>

NewCancelReservations(i, validator, delegators) ==
    LET r == new_cancel_reservations(validator, delegators) IN
    /\ calls[i].ctor = None
    /\ builders' = [builders EXCEPT ![i] = IF IsOk(r) THEN Some(r.val) ELSE None]
    /\ calls' = [calls EXCEPT ![i].ctor = Called("new_cancel_reservations", [validator |-> validator, delegators |-> delegators], r)]
    /\ UNCHANGED <<clock, std_fs_io, results, later, signCalls, fc, fcResult, deploy, deploySigns, deployBuilds, created, put>>

NewTargetingInvocableEntity(i, hash, entry_point, runtime) ==
    /\ calls[i].ctor = None
    /\ builders' = [builders EXCEPT ![i] = Some(new_targeting_invocable_entity(hash, entry_point, runtime))]
    /\ calls' = [calls EXCEPT ![i].ctor = Called("new_targeting_invocable_entity", [hash |-> hash, entry_point |-> entry_point, runtime |-> runtime], Ok(<<>>))]
    /\ UNCHANGED <<clock, std_fs_io, results, later, signCalls, fc, fcResult, deploy, deploySigns, deployBuilds, created, put>>

NewTargetingInvocableEntityViaAlias(i, alias, entry_point, runtime) ==
    /\ calls[i].ctor = None
    /\ builders' = [builders EXCEPT ![i] = Some(new_targeting_invocable_entity_via_alias(alias, entry_point, runtime))]
    /\ calls' = [calls EXCEPT ![i].ctor = Called("new_targeting_invocable_entity_via_alias", [alias |-> alias, entry_point |-> entry_point, runtime |-> runtime], Ok(<<>>))]
    /\ UNCHANGED <<clock, std_fs_io, results, later, signCalls, fc, fcResult, deploy, deploySigns, deployBuilds, created, put>>

NewTargetingPackage(i, hash, version, entry_point, runtime) ==
    /\ calls[i].ctor = None
    /\ builders' = [builders EXCEPT ![i] = Some(new_targeting_package(hash, version, entry_point, runtime))]
    /\ calls' = [calls EXCEPT ![i].ctor = Called("new_targeting_package", [hash |-> hash, version |-> version, entry_point |-> entry_point, runtime |-> runtime], Ok(<<>>))]
    /\ UNCHANGED <<clock, std_fs_io, results, later, signCalls, fc, fcResult, deploy, deploySigns, deployBuilds, created, put>>

NewTargetingPackageViaAlias(i, alias, version, entry_point, runtime) ==
    /\ calls[i].ctor = None
    /\ builders' = [builders EXCEPT ![i] = Some(new_targeting_package_via_alias(alias, version, entry_point, runtime))]
    /\ calls' = [calls EXCEPT ![i].ctor = Called("new_targeting_package_via_alias", [alias |-> alias, version |-> version, entry_point |-> entry_point, runtime |-> runtime], Ok(<<>>))]
    /\ UNCHANGED <<clock, std_fs_io, results, later, signCalls, fc, fcResult, deploy, deploySigns, deployBuilds, created, put>>

WithChainName(i, chain_name) ==
    /\ Live(i)
    /\ builders' = [builders EXCEPT ![i] = Some(with_chain_name(Unwrap(builders[i]), chain_name))]
    /\ UNCHANGED <<clock, std_fs_io, results, later, signCalls, fc, fcResult, deploy, deploySigns, calls, deployBuilds, created, put>>

WithTimestamp(i, timestamp) ==
    /\ Live(i)
    /\ builders' = [builders EXCEPT ![i] = Some(with_timestamp(Unwrap(builders[i]), timestamp))]
    /\ calls' = [calls EXCEPT ![i].timestamp = Some(timestamp)]
    /\ UNCHANGED <<clock, std_fs_io, results, later, signCalls, fc, fcResult, deploy, deploySigns, deployBuilds, created, put>>

WithTtl(i, ttl) ==
    /\ Live(i)
    /\ builders' = [builders EXCEPT ![i] = Some(with_ttl(Unwrap(builders[i]), ttl))]
    /\ UNCHANGED <<clock, std_fs_io, results, later, signCalls, fc, fcResult, deploy, deploySigns, calls, deployBuilds, created, put>>

WithPricingMode(i, pricing_mode) ==
    /\ Live(i)
    /\ builders' = [builders EXCEPT ![i] = Some(with_pricing_mode(Unwrap(builders[i]), pricing_mode))]
    /\ UNCHANGED <<clock, std_fs_io, results, later, signCalls, fc, fcResult, deploy, deploySigns, calls, deployBuilds, created, put>>

WithInitiatorAddr(i, addr) ==
    /\ Live(i)
    /\ builders' = [builders EXCEPT ![i] = Some(with_initiator_addr(Unwrap(builders[i]), addr))]
    /\ UNCHANGED <<clock, std_fs_io, results, later, signCalls, fc, fcResult, deploy, deploySigns, calls, deployBuilds, created, put>>

WithSecretKey(i, key) ==
    /\ Live(i)
    /\ builders' = [builders EXCEPT ![i] = Some(with_secret_key(Unwrap(builders[i]), key))]
    /\ UNCHANGED <<clock, std_fs_io, results, later, signCalls, fc, fcResult, deploy, deploySigns, calls, deployBuilds, created, put>>

WithRuntimeArgs(i, args) ==
    /\ Live(i)
    /\ builders' = [builders EXCEPT ![i] = Some(with_runtime_args(Unwrap(builders[i]), args))]
    /\ calls' = [calls EXCEPT ![i].args = Some(Named(args))]
    /\ UNCHANGED <<clock, std_fs_io, results, later, signCalls, fc, fcResult, deploy, deploySigns, deployBuilds, created, put>>

WithChunkedArgs(i, args) ==
    /\ Live(i)
    /\ builders' = [builders EXCEPT ![i] = Some(with_chunked_args(Unwrap(builders[i]), args))]
    /\ calls' = [calls EXCEPT ![i].args = Some(Bytesrepr(args))]
    /\ UNCHANGED <<clock, std_fs_io, results, later, signCalls, fc, fcResult, deploy, deploySigns, deployBuilds, created, put>>

WithEntryPoint(i, entry_point) ==
    /\ Live(i)
    /\ builders' = [builders EXCEPT ![i] = Some(with_entry_point(Unwrap(builders[i]), entry_point))]
    /\ UNCHANGED <<clock, std_fs_io, results, later, signCalls, fc, fcResult, deploy, deploySigns, calls, deployBuilds, created, put>>


Build(i) ==
    /\ Live(i)
    /\ results' = [results EXCEPT ![i] = Some(build(Unwrap(builders[i])))]
    /\ UNCHANGED <<clock, std_fs_io, builders, later, signCalls, fc, fcResult, deploy, deploySigns, calls, deployBuilds, created, put>>

\* The transaction the caller holds: the one build returned, signed since.
Held(i) == IF IsSome(later[i]) THEN Unwrap(later[i]) ELSE Unwrap(results[i]).val

\* A caller signs the transaction build returned (TransactionV1::sign).
Sign(i, key) ==
    /\ IsSome(results[i])
    /\ IsOk(Unwrap(results[i]))
    /\ signCalls[i] < MaxSigns
    /\ later' = [later EXCEPT ![i] = Some(TransactionV1_sign(Held(i), key))]
    /\ signCalls' = [signCalls EXCEPT ![i] = @ + 1]
    /\ UNCHANGED <<clock, std_fs_io, builders, results, fc, fcResult, deploy, deploySigns, calls, deployBuilds, created, put>>

\* The deploy of the tests' SAMPLE_DEPLOY: approved by two other signers.
SAMPLE_DEPLOY ==
    LET hash == Digest_hash(<<4, 2>>) IN
    [hash |-> hash,
     approvals |-> {Approval_create(hash, 8), Approval_create(hash, 9)}]

\* Deploy::sign: the approval of the hash by the key joins the set.
Deploy_sign(d, key) ==
    [d EXCEPT !.approvals = @ \cup {Approval_create(d.hash, key)}]

\* sign_deploy_file: read the deploy, sign it, write it back.
SignDeploy(key) ==
    /\ deploySigns < MaxSigns
    /\ deploy' = Deploy_sign(deploy, key)
    /\ deploySigns' = deploySigns + 1
    /\ UNCHANGED <<clock, std_fs_io, builders, results, later, signCalls, fc, fcResult, calls, deployBuilds, created, put>>

Tick ==
    /\ clock < MaxClock
    /\ clock' = clock + 1
    /\ UNCHANGED <<std_fs_io, builders, results, later, signCalls, fc, fcResult, deploy, deploySigns, calls, deployBuilds, created, put>>

Init ==
    /\ clock = 0
    /\ std_fs_io \in BOOLEAN
    /\ builders = [i \in Ids |-> None]
    /\ results = [i \in Ids |-> None]
    /\ later = [i \in Ids |-> None]
    /\ signCalls = [i \in Ids |-> 0]
    /\ fc = None
    /\ fcResult = None
    /\ deploy = SAMPLE_DEPLOY
    /\ deploySigns = 0
    /\ calls = [i \in Ids |-> NoCalls]
    /\ deployBuilds = [builder |-> None, result |-> None, cli |-> None]
    /\ created = None
    /\ put = [command |-> None, run |-> None]

Next ==
    \/ Tick
    \/ New(1)
    \/ \E id \in InvocationTargets, e \in EntryPointNames : NewTargetingStored(1, id, e, VmCasperV1)
    \/ \E m \in ModuleBytesValues : NewSession(1, FALSE, m, VmCasperV1)
    \/ \E c \in ChainNames : WithChainName(1, c)
    \/ \E t \in Timestamps : WithTimestamp(1, t)
    \/ \E t \in Ttls : WithTtl(1, t)
    \/ \E p \in PricingModes : WithPricingMode(1, p)
    \/ \E a \in InitiatorAddrs : WithInitiatorAddr(1, a)
    \/ \E k \in SecretKeys : WithSecretKey(1, k)
    \/ \E a \in RuntimeArgsValues : WithRuntimeArgs(1, a)
    \/ \E a \in ChunkedArgsValues : WithChunkedArgs(1, a)
    \/ \E e \in EntryPoints : WithEntryPoint(1, e)
    \/ Build(1)
    \/ \E k \in SecretKeys : Sign(1, k)

Spec == Init /\ [][Next]_vars

(***************************************************************************)
(* Every constructor on every kind of input, the setters of the arguments  *)
(* and of what build requires, and build.                                  *)
(***************************************************************************)
Amounts == {0, 300}
PublicKeys == {1, 2}
MaybeSources == {None, Some(7)}
TransferTargets ==
    {TransferTarget_PublicKey(2), TransferTarget_AccountHash(5), TransferTarget_URef(6)}
MaybeIds == {None, Some(0), Some(9)}
DelegationRates == {10}
MaybeDelegationAmounts == {None, Some(4)}
MaybeReservedSlots == {None, Some(3)}
ReservationLists == {Bytes(<<>>), Bytes(<<1, 2>>), HugeBytes}
DelegatorLists == {Bytes(<<1>>), HugeBytes}
Hashes == {1}
Aliases == {2}
MaybeVersions == {None, Some(0)}
Runtimes == {VmCasperV1, VmCasperV2}
CustomNames == {Bytes(<<3>>), HugeBytes}

NextCtor ==
    \/ Tick
    \/ New(1)
    \/ \E a \in Amounts, s \in MaybeSources, t \in TransferTargets, id \in MaybeIds :
          NewTransfer(1, a, s, t, id)
    \/ \E a \in Amounts, min \in MaybeDelegationAmounts, max \in MaybeDelegationAmounts,
          slots \in MaybeReservedSlots, rate \in DelegationRates :
          NewAddBid(1, 1, rate, a, min, max, slots)
    \/ \E k \in PublicKeys, a \in Amounts : NewWithdrawBid(1, k, a)
    \/ \E k \in PublicKeys, a \in Amounts : NewDelegate(1, k, 2, a)
    \/ \E k \in PublicKeys, a \in Amounts : NewUndelegate(1, k, 2, a)
    \/ \E k \in PublicKeys, a \in Amounts : NewRedelegate(1, 1, 2, a, k)
    \/ \E k \in PublicKeys : NewActivateBid(1, k)
    \/ \E k \in PublicKeys : NewChangeBidPublicKey(1, 1, k)
    \/ \E r \in ReservationLists : NewAddReservations(1, r)
    \/ \E k \in PublicKeys, d \in DelegatorLists : NewCancelReservations(1, k, d)
    \/ \E h \in Hashes, e \in CustomNames, r \in Runtimes :
          NewTargetingInvocableEntity(1, h, e, r)
    \/ \E a \in Aliases, e \in CustomNames, r \in Runtimes :
          NewTargetingInvocableEntityViaAlias(1, a, e, r)
    \/ \E h \in Hashes, v \in MaybeVersions, e \in CustomNames, r \in Runtimes :
          NewTargetingPackage(1, h, v, e, r)
    \/ \E a \in Aliases, v \in MaybeVersions, e \in CustomNames, r \in Runtimes :
          NewTargetingPackageViaAlias(1, a, v, e, r)
    \/ \E u \in BOOLEAN, m \in ModuleBytesValues, r \in Runtimes : NewSession(1, u, m, r)
    \/ \E c \in PairChainNames : WithChainName(1, c)
    \/ \E t \in Timestamps : WithTimestamp(1, t)
    \/ \E a \in PairInitiatorAddrs : WithInitiatorAddr(1, a)
    \/ \E a \in RuntimeArgsValues : WithRuntimeArgs(1, a)
    \/ \E a \in ChunkedArgsValues : WithChunkedArgs(1, a)
    \/ Build(1)

SpecCtor == Init /\ [][NextCtor]_vars

(***************************************************************************)
(* FieldsContainer on its own: any four field values, then to_map; and     *)
(* the container build makes of a builder's fields.                        *)
(***************************************************************************)
FcArgs == {Named(a) : a \in RuntimeArgsValues} \cup {Bytesrepr(HugeBytes)}
FcTargets ==
    {Native, Stored(new_invocable_entity(1), VmCasperV1),
     Session(FALSE, HugeBytes, VmCasperV1)}
FcEntryPoints == {Transfer, Custom(Bytes(<<3>>)), Custom(HugeBytes)}
FcSchedulings == {Standard, FutureEra(Bytes(<<7>>)), FutureEra(HugeBytes)}

FieldsNew(args, target, entry_point, scheduling) ==
    /\ fc = None
    /\ fc' = Some(FieldsContainer_new(args, target, entry_point, scheduling))
    /\ UNCHANGED <<clock, std_fs_io, builders, results, later, signCalls, fcResult, deploy, deploySigns, calls, deployBuilds, created, put>>

ToMap ==
    /\ IsSome(fc)
    /\ fcResult = None
    /\ fcResult' = Some(to_map(Unwrap(fc)))
    /\ UNCHANGED <<clock, std_fs_io, builders, results, later, signCalls, fc, deploy, deploySigns, calls, deployBuilds, created, put>>

NextFields ==
    \/ \E a \in FcArgs, t \in FcTargets, e \in FcEntryPoints, s \in FcSchedulings :
            FieldsNew(a, t, e, s)
    \/ ToMap
    \/ New(1)
    \/ \E id \in InvocationTargets, e \in EntryPointNames : NewTargetingStored(1, id, e, VmCasperV1)
    \/ \E c \in PairChainNames : WithChainName(1, c)
    \/ \E k \in SecretKeys : WithSecretKey(1, k)
    \/ \E a \in ChunkedArgsValues : WithChunkedArgs(1, a)
    \/ Build(1)

SpecFields == Init /\ [][NextFields]_vars

(***************************************************************************)
(* Two builders, configured and built in any interleaving.                 *)
(***************************************************************************)

NextPair ==
    \/ Tick
    \/ \E i \in Ids :
        \/ New(i)
        \/ \E c \in PairChainNames : WithChainName(i, c)
        \/ \E t \in Timestamps : WithTimestamp(i, t)
        \/ \E a \in PairInitiatorAddrs : WithInitiatorAddr(i, a)
        \/ \E k \in SecretKeys : WithSecretKey(i, k)
        \/ Build(i)

SpecPair == Init /\ [][NextPair]_vars

(***************************************************************************)
(* Signing: a transaction built by one builder and the sample deploy are   *)
(* signed by callers.                                                      *)
(***************************************************************************)
NextSign ==
    \/ New(1)
    \/ \E c \in PairChainNames : WithChainName(1, c)
    \/ \E a \in PairInitiatorAddrs : WithInitiatorAddr(1, a)
    \/ \E k \in SecretKeys : WithSecretKey(1, k)
    \/ Build(1)
    \/ \E k \in SecretKeys : Sign(1, k)
    \/ \E k \in SecretKeys : SignDeploy(k)

SpecSign == Init /\ [][NextSign]_vars

(***************************************************************************)
(* lib/cli/deploy_builder.rs and lib/cli/deploy.rs: the builder of the     *)
(* legacy deploys and the functions of the cli that use it, as their       *)
(* documentation, their errors (deploy_builder/error.rs) and their tests   *)
(* describe them.  A session or payment item is its bytes.                 *)
(***************************************************************************)
DeployMissingSessionAccount == [name |-> "DeployMissingSessionAccount"]
DeployMissingPaymentCode == [name |-> "DeployMissingPaymentCode"]

\* An executable deploy item: the bytes it starts with and the length of the
\* run of equal bytes (the letters of a long string argument) that follows.
Item(body, fill) == [body |-> body, huge |-> FALSE, fill |-> fill]
ItemToBytes(item) == BytesToBytes(item).val \o LeBytes(item.fill, 4)
ItemSerializedLength(item) == Len(BytesToBytes(item).val) + item.fill

MAX_SERIALIZED_SIZE_OF_DEPLOY == 1048576

DeployExcessiveSizeError(max_transaction_size, actual_deploy_size) ==
    [name |-> "DeployExcessiveSizeError",
     max_transaction_size |-> max_transaction_size,
     actual_deploy_size |-> actual_deploy_size]

DeployBuilder_new(chain_name) ==
    [chain_name |-> chain_name, account |-> None, secret_key |-> None,
     session |-> None, payment |-> None,
     timestamp |-> clock, ttl |-> DEFAULT_TTL]

DeployBuilder_with_session(self, session) == [self EXCEPT !.session = Some(session)]
DeployBuilder_with_payment(self, payment) == [self EXCEPT !.payment = Some(payment)]
DeployBuilder_with_account(self, account) == [self EXCEPT !.account = Some(account)]
DeployBuilder_with_secret_key(self, key) == [self EXCEPT !.secret_key = Some(key)]

\* Deploy::build: the body hash is the hash of the payment and the session,
\* the deploy hash that of the header; a secret key signs the deploy hash.
\* Variant: the account of the header is the public key of the secret key
\* whenever there is a secret key.
Deploy_build_account_of_key(timestamp, ttl, chain_name, payment, session, maybe_secret_key, account) ==
    LET body_hash == Digest_hash(ItemToBytes(payment) \o ItemToBytes(session))
        signer == IF IsSome(maybe_secret_key)
                  THEN PublicKeyFrom(Unwrap(maybe_secret_key)) ELSE account
        header == [account |-> signer, timestamp |-> timestamp, ttl |-> ttl,
                   chain_name |-> chain_name, body_hash |-> body_hash]
        hash == Digest_hash(<<signer>> \o U64ToBytes(timestamp) \o U64ToBytes(ttl)
                            \o BytesToBytes(chain_name).val \o <<body_hash>>)
    IN  [hash |-> hash, header |-> header, payment |-> payment, session |-> session,
         approvals |-> IF IsSome(maybe_secret_key)
                       THEN {Approval_create(hash, Unwrap(maybe_secret_key))}
                       ELSE {}]

DeployHeaderToBytes(header) ==
    <<header.account>> \o U64ToBytes(header.timestamp) \o U64ToBytes(header.ttl)
    \o BytesToBytes(header.chain_name).val \o <<header.body_hash>>

Deploy_build(timestamp, ttl, chain_name, payment, session, maybe_secret_key, account) ==
    LET body_hash == Digest_hash(ItemToBytes(payment) \o ItemToBytes(session))
        header == [account |-> account, timestamp |-> timestamp, ttl |-> ttl,
                   chain_name |-> chain_name, body_hash |-> body_hash]
        hash == Digest_hash(DeployHeaderToBytes(header))
    IN  [hash |-> hash, header |-> header, payment |-> payment, session |-> session,
         approvals |-> IF IsSome(maybe_secret_key)
                       THEN {Approval_create(hash, Unwrap(maybe_secret_key))}
                       ELSE {}]

\* The length of the serialized deploy: its hash, its header, its two items
\* and its approvals (a count and, for each, a signer and a signature).
Deploy_serialized_length(d) ==
    1 + Len(DeployHeaderToBytes(d.header)) + ItemSerializedLength(d.payment)
    + ItemSerializedLength(d.session) + 1 + 2 * Cardinality(d.approvals)

\* Variant: a deploy of exactly the maximum size is refused as well.
Deploy_is_valid_size_exclusive(d, max_transaction_size) ==
    LET actual_deploy_size == Deploy_serialized_length(d) IN
    IF actual_deploy_size >= max_transaction_size
    THEN Err(DeployExcessiveSizeError(max_transaction_size, actual_deploy_size))
    ELSE Ok(d)

\* Deploy::is_valid_size: the deploy, or the error that reports the maximum
\* and the size of the deploy.
Deploy_is_valid_size(d, max_transaction_size) ==
    LET actual_deploy_size == Deploy_serialized_length(d) IN
    IF actual_deploy_size > max_transaction_size
    THEN Err(DeployExcessiveSizeError(max_transaction_size, actual_deploy_size))
    ELSE Ok(d)

\* Variant: a missing session item is taken to be an empty one.
DeployBuilder_build_without_session_check(self) ==
    IF self.account = None /\ self.secret_key = None
    THEN Err(DeployMissingSessionAccount) ELSE
    IF self.payment = None THEN Err(DeployMissingPaymentCode) ELSE
    LET account == IF IsSome(self.account) THEN Unwrap(self.account)
                   ELSE PublicKeyFrom(Unwrap(self.secret_key))
    IN  Deploy_is_valid_size(
            Deploy_build(self.timestamp, self.ttl, self.chain_name,
                         Unwrap(self.payment),
                         IF IsSome(self.session) THEN Unwrap(self.session) ELSE Item(<<>>, 0),
                         self.secret_key, account),
            MAX_SERIALIZED_SIZE_OF_DEPLOY)

\* Variant: the payment is looked for before the account.
DeployBuilder_build_payment_first(self) ==
    IF self.session = None THEN Err(DeployMissingSessionAccount) ELSE
    IF self.payment = None THEN Err(DeployMissingPaymentCode) ELSE
    IF self.account = None /\ self.secret_key = None
    THEN Err(DeployMissingSessionAccount) ELSE
    LET account == IF IsSome(self.account) THEN Unwrap(self.account)
                   ELSE PublicKeyFrom(Unwrap(self.secret_key))
    IN  Deploy_is_valid_size(
            Deploy_build(self.timestamp, self.ttl, self.chain_name,
                         Unwrap(self.payment), Unwrap(self.session),
                         self.secret_key, account),
            MAX_SERIALIZED_SIZE_OF_DEPLOY)

\* Variant: a missing payment item is taken to be an empty one.
DeployBuilder_build_without_payment_check(self) ==
    IF self.session = None THEN Err(DeployMissingSessionAccount) ELSE
    IF self.account = None /\ self.secret_key = None
    THEN Err(DeployMissingSessionAccount) ELSE
    LET account == IF IsSome(self.account) THEN Unwrap(self.account)
                   ELSE PublicKeyFrom(Unwrap(self.secret_key))
    IN  Deploy_is_valid_size(
            Deploy_build(self.timestamp, self.ttl, self.chain_name,
                         IF IsSome(self.payment) THEN Unwrap(self.payment) ELSE Item(<<>>, 0),
                         Unwrap(self.session), self.secret_key, account),
            MAX_SERIALIZED_SIZE_OF_DEPLOY)

DeployBuilder_build(self) ==
    IF self.session = None THEN Err(DeployMissingSessionAccount) ELSE
    IF self.account = None /\ self.secret_key = None
    THEN Err(DeployMissingSessionAccount) ELSE
    IF self.payment = None THEN Err(DeployMissingPaymentCode) ELSE
    LET account == IF IsSome(self.account) THEN Unwrap(self.account)
                   ELSE PublicKeyFrom(Unwrap(self.secret_key))
    IN  Deploy_is_valid_size(
            Deploy_build(self.timestamp, self.ttl, self.chain_name,
                         Unwrap(self.payment), Unwrap(self.session),
                         self.secret_key, account),
            MAX_SERIALIZED_SIZE_OF_DEPLOY)

\* CliError
InvalidArgument(context, error) ==
    [name |-> "InvalidArgument", context |-> context, error |-> error]
CliError_Core(error) == [name |-> "Core", context |-> "", error |-> error]
Error_DeployBuild(error) == [name |-> "DeployBuild", error |-> error]
Error_DeploySize(error) == [name |-> "DeploySize", error |-> error]

NO_SECRET_KEY == "No secret key provided and unsigned deploys are not allowed"

\* The deploy of the parameters, the payment and the session.
cli_build_deploy(context, deploy_params, payment, session, allow_unsigned_deploy) ==
    IF deploy_params.secret_key = None /\ ~allow_unsigned_deploy
    THEN Err(InvalidArgument(context, NO_SECRET_KEY))
    ELSE
    LET b0 == DeployBuilder_with_payment(
                  DeployBuilder_with_session(DeployBuilder_new(deploy_params.chain_name),
                                             session),
                  payment)
        b1 == IF IsSome(deploy_params.session_account)
              THEN DeployBuilder_with_account(b0, Unwrap(deploy_params.session_account))
              ELSE b0
        b2 == IF IsSome(deploy_params.secret_key)
              THEN DeployBuilder_with_secret_key(b1, Unwrap(deploy_params.secret_key))
              ELSE b1
        r == DeployBuilder_build(b2)
    IN  IF IsOk(r) THEN r
        ELSE IF r.err.name = "DeployExcessiveSizeError"
        THEN Err(CliError_Core(Error_DeploySize(r.err)))
        ELSE Err(CliError_Core(Error_DeployBuild(r.err)))

\* deploy::with_payment_and_session
with_payment_and_session(deploy_params, payment, session, allow_unsigned_deploy) ==
    cli_build_deploy("with_payment_and_session", deploy_params, payment, session,
                     allow_unsigned_deploy)

\* ExecutableDeployItem::Transfer of the arguments of a transfer.
TransferItem(amount, maybe_source, target, transfer_id) ==
    Item(<<5, amount>> \o OptionToBytes(maybe_source, LAMBDA u : <<u>>)
         \o <<target, transfer_id>>, 0)

\* deploy::new_transfer
deploy_new_transfer(amount, maybe_source, target, transfer_id, deploy_params, payment, allow_unsigned_deploy) ==
    cli_build_deploy("new_transfer", deploy_params, payment,
                     TransferItem(amount, maybe_source, target, transfer_id),
                     allow_unsigned_deploy)

DeployItems == {Item(<<6>>, 0), Item(<<7, 1>>, 0)}
\* Session items with a long string argument: the first brings the unsigned
\* deploy of the payment <<6>> to the maximum size, the second beyond it.
FillToMaximum == MAX_SERIALIZED_SIZE_OF_DEPLOY - 26
SessionItems ==
    DeployItems \cup {Item(<<8>>, FillToMaximum), Item(<<8>>, FillToMaximum + 1)}
DeployAccounts == {PublicKeyFrom(1), PublicKeyFrom(2)}
DeployStrParamsValues ==
    [secret_key : {None} \cup {Some(k) : k \in SecretKeys},
     session_account : {None} \cup {Some(a) : a \in DeployAccounts},
     chain_name : PairChainNames]

DeployLive == IsSome(deployBuilds.builder) /\ deployBuilds.result = None

DeployNew(chain_name) ==
    /\ deployBuilds.builder = None
    /\ deployBuilds' = [deployBuilds EXCEPT !.builder = Some(DeployBuilder_new(chain_name))]
    /\ UNCHANGED <<clock, std_fs_io, builders, results, later, signCalls, fc, fcResult, deploy, deploySigns, calls, created, put>>

DeployWithSession(session) ==
    /\ DeployLive
    /\ deployBuilds' = [deployBuilds EXCEPT
          !.builder = Some(DeployBuilder_with_session(Unwrap(@), session))]
    /\ UNCHANGED <<clock, std_fs_io, builders, results, later, signCalls, fc, fcResult, deploy, deploySigns, calls, created, put>>

DeployWithPayment(payment) ==
    /\ DeployLive
    /\ deployBuilds' = [deployBuilds EXCEPT
          !.builder = Some(DeployBuilder_with_payment(Unwrap(@), payment))]
    /\ UNCHANGED <<clock, std_fs_io, builders, results, later, signCalls, fc, fcResult, deploy, deploySigns, calls, created, put>>

DeployWithAccount(account) ==
    /\ DeployLive
    /\ deployBuilds' = [deployBuilds EXCEPT
          !.builder = Some(DeployBuilder_with_account(Unwrap(@), account))]
    /\ UNCHANGED <<clock, std_fs_io, builders, results, later, signCalls, fc, fcResult, deploy, deploySigns, calls, created, put>>

DeployWithSecretKey(key) ==
    /\ DeployLive
    /\ deployBuilds' = [deployBuilds EXCEPT
          !.builder = Some(DeployBuilder_with_secret_key(Unwrap(@), key))]
    /\ UNCHANGED <<clock, std_fs_io, builders, results, later, signCalls, fc, fcResult, deploy, deploySigns, calls, created, put>>

DeployBuild ==
    /\ DeployLive
    /\ deployBuilds' = [deployBuilds EXCEPT
          !.result = Some(DeployBuilder_build(Unwrap(deployBuilds.builder)))]
    /\ UNCHANGED <<clock, std_fs_io, builders, results, later, signCalls, fc, fcResult, deploy, deploySigns, calls, created, put>>

CliWithPaymentAndSession(deploy_params, payment, session, allow_unsigned_deploy) ==
    /\ deployBuilds.cli = None
    /\ deployBuilds' = [deployBuilds EXCEPT !.cli =
          Some([op |-> "with_payment_and_session", deploy_params |-> deploy_params,
                payment |-> payment, session |-> session,
                allow_unsigned_deploy |-> allow_unsigned_deploy,
                result |-> with_payment_and_session(deploy_params, payment, session,
                                                    allow_unsigned_deploy)])]
    /\ UNCHANGED <<clock, std_fs_io, builders, results, later, signCalls, fc, fcResult, deploy, deploySigns, calls, created, put>>

CliNewTransfer(amount, maybe_source, target, transfer_id, deploy_params, payment, allow_unsigned_deploy) ==
    /\ deployBuilds.cli = None
    /\ deployBuilds' = [deployBuilds EXCEPT !.cli =
          Some([op |-> "new_transfer", deploy_params |-> deploy_params,
                payment |-> payment,
                session |-> TransferItem(amount, maybe_source, target, transfer_id),
                allow_unsigned_deploy |-> allow_unsigned_deploy,
                result |-> deploy_new_transfer(amount, maybe_source, target, transfer_id,
                                               deploy_params, payment,
                                               allow_unsigned_deploy)])]
    /\ UNCHANGED <<clock, std_fs_io, builders, results, later, signCalls, fc, fcResult, deploy, deploySigns, calls, created, put>>

NextDeploy ==
    \/ \E c \in PairChainNames : DeployNew(c)
    \/ \E item \in SessionItems : DeployWithSession(item)
    \/ \E item \in DeployItems : DeployWithPayment(item)
    \/ \E a \in DeployAccounts : DeployWithAccount(a)
    \/ \E k \in SecretKeys : DeployWithSecretKey(k)
    \/ DeployBuild
    \/ \E dp \in DeployStrParamsValues, pay \in DeployItems, ses \in SessionItems,
          allow \in BOOLEAN : CliWithPaymentAndSession(dp, pay, ses, allow)
    \/ \E a \in Amounts, src \in MaybeSources, dp \in DeployStrParamsValues,
          pay \in DeployItems, allow \in BOOLEAN :
          CliNewTransfer(a, src, 2, 1, dp, pay, allow)

SpecDeploy == Init /\ [][NextDeploy]_vars

(***************************************************************************)
(* lib/cli/transaction.rs: create_transaction, as its tests describe it.   *)
(* The parameters of the builder are those of a variant of                 *)
(* TransactionBuilderParams; of the string parameters those that decide    *)
(* the identity and the chain name are kept.                               *)
(***************************************************************************)
BuilderParams_AddBid(public_key, delegation_rate, amount, minimum_delegation_amount, maximum_delegation_amount, reserved_slots) ==
    [variant |-> "AddBid",
     params |-> <<public_key, delegation_rate, amount, minimum_delegation_amount,
                  maximum_delegation_amount, reserved_slots>>]
BuilderParams_Delegate(delegator, validator, amount) ==
    [variant |-> "Delegate", params |-> <<delegator, validator, amount>>]

make_transaction_builder(builder_params) ==
    LET p == builder_params.params IN
    IF builder_params.variant = "AddBid"
    THEN new_add_bid(p[1], p[2], p[3], p[4], p[5], p[6])
    ELSE new_delegate(p[1], p[2], p[3])

NO_SECRET_KEY_FOR_TRANSACTION ==
    "allow_unsigned_deploy was false, but no secret key was provided"

Error_TransactionBuild(error) == [name |-> "TransactionBuild", error |-> error]

\* The setters create_transaction calls on the builder it made.
configure_transaction_builder(builder, transaction_params) ==
    LET b0 == with_chain_name(builder, transaction_params.chain_name)
        b1 == IF IsSome(transaction_params.initiator_addr)
              THEN with_initiator_addr(b0, Unwrap(transaction_params.initiator_addr))
              ELSE b0
    IN  IF IsSome(transaction_params.secret_key)
        THEN with_secret_key(b1, Unwrap(transaction_params.secret_key))
        ELSE b1

\* The error of build as an error of the cli.
map_build_error(r) ==
    IF r.kind = "Err" THEN Err(CliError_Core(Error_TransactionBuild(r.err))) ELSE r

\* What create_transaction does with the builder a constructor returned.
build_created(made, transaction_params) ==
    IF ~IsOk(made) THEN Err(CliError_Core(made.err))
    ELSE map_build_error(build(configure_transaction_builder(made.val, transaction_params)))

\* Variant: without a secret key an unsigned transaction is written whether
\* or not that is allowed.
create_transaction_unsigned_anyway(builder_params, transaction_params, allow_unsigned_transaction) ==
    build_created(make_transaction_builder(builder_params), transaction_params)

create_transaction(builder_params, transaction_params, allow_unsigned_transaction) ==
    IF transaction_params.secret_key = None /\ ~allow_unsigned_transaction
    THEN Err(InvalidArgument("create_transaction", NO_SECRET_KEY_FOR_TRANSACTION))
    ELSE build_created(make_transaction_builder(builder_params), transaction_params)

BuilderParamsValues ==
    {BuilderParams_AddBid(1, 0, 10, Some(4), Some(9), r) : r \in MaybeReservedSlots}
    \cup {BuilderParams_Delegate(1, 2, a) : a \in Amounts}
TransactionStrParamsValues ==
    [secret_key : {None} \cup {Some(k) : k \in SecretKeys},
     initiator_addr : {None} \cup {Some(a) : a \in InitiatorAddrs},
     chain_name : PairChainNames]

CliCreateTransaction(builder_params, transaction_params, allow_unsigned_transaction) ==
    /\ created = None
    /\ created' = Some([builder_params |-> builder_params,
                        transaction_params |-> transaction_params,
                        allow_unsigned_transaction |-> allow_unsigned_transaction,
                        result |-> create_transaction(builder_params, transaction_params,
                                                      allow_unsigned_transaction)])
    /\ UNCHANGED <<clock, std_fs_io, builders, results, later, signCalls, fc, fcResult, deploy, deploySigns, calls, deployBuilds, put>>

\* The functions of the cli that create a deploy or a transaction.
NextCli ==
    \/ \E dp \in DeployStrParamsValues, pay \in DeployItems, ses \in SessionItems,
          allow \in BOOLEAN : CliWithPaymentAndSession(dp, pay, ses, allow)
    \/ \E a \in Amounts, src \in MaybeSources, dp \in DeployStrParamsValues,
          pay \in DeployItems, allow \in BOOLEAN :
          CliNewTransfer(a, src, 2, 1, dp, pay, allow)
    \/ \E bp \in BuilderParamsValues, tp \in TransactionStrParamsValues,
          allow \in BOOLEAN : CliCreateTransaction(bp, tp, allow)

SpecCli == Init /\ [][NextCli]_vars

(***************************************************************************)
(* src/transaction/put.rs: the put-transaction command.  A subcommand is   *)
(* known by the module of creation_common that defines it (its NAME).      *)
(***************************************************************************)
ALIAS == "put-txn"
PutTransaction_NAME == "put-transaction"

\* <module>::put_transaction_build(): the subcommand named <module>::NAME.
put_transaction_build(module) == [name |-> module]

\* PutTransaction::build
PutTransaction_build(display_order) ==
    [name |-> PutTransaction_NAME,
     alias |-> ALIAS,
     subcommand_required |-> TRUE,
     subcommands |-> <<put_transaction_build("add_bid"),
                       put_transaction_build("activate_bid"),
                       put_transaction_build("withdraw_bid"),
                       put_transaction_build("delegate"),
                       put_transaction_build("undelegate"),
                       put_transaction_build("redelegate"),
                       put_transaction_build("change_bid_public_key"),
                       put_transaction_build("add_reservations"),
                       put_transaction_build("cancel_reservations"),
                       put_transaction_build("invocable_entity"),
                       put_transaction_build("invocable_entity_alias"),
                       put_transaction_build("package"),
                       put_transaction_build("package_alias"),
                       put_transaction_build("session"),
                       put_transaction_build("transfer")>>,
     display_order |-> display_order]

\* The arms of the match in run, in their order: the NAME each one matches.
RunArms ==
    <<"add_bid", "activate_bid", "withdraw_bid", "delegate", "undelegate",
      "redelegate", "change_bid_public_key", "add_reservations",
      "cancel_reservations", "invocable_entity", "invocable_entity_alias",
      "package", "package_alias", "session", "transfer">>

NotRecognized ==
    InvalidArgument("Make Transaction", "failure to provide recognized subcommand")
NotSupplied == InvalidArgument("Put Transaction", "Failure to supply subcommand")

\* What run does: the module whose run parsed the arguments (if any), how
\* often put_transaction was called, and the result.
RunOutcome(handler, put_transaction, result) ==
    [handler |-> handler, put_transaction |-> put_transaction, result |-> result]

\* Variant: the match has no arm for transfer.
PutTransaction_run_without_transfer(matches, parsed, sent) ==
    IF matches.subcommand = None THEN RunOutcome(None, 0, Err(NotSupplied))
    ELSE
    LET subcommand == Unwrap(matches.subcommand) IN
    IF \E k \in 1..(Len(RunArms) - 1) : RunArms[k] = subcommand
    THEN IF ~IsOk(parsed) THEN RunOutcome(Some(subcommand), 0, parsed)
         ELSE RunOutcome(Some(subcommand), 1, sent)
    ELSE RunOutcome(None, 0, Err(NotRecognized))

\* PutTransaction::run: `parsed` is what parse_rpc_args_and_run returns for
\* the subcommand's matches and `sent` what put_transaction returns.
PutTransaction_run(matches, parsed, sent) ==
    IF matches.subcommand = None THEN RunOutcome(None, 0, Err(NotSupplied))
    ELSE
    LET subcommand == Unwrap(matches.subcommand) IN
    IF \E k \in 1..Len(RunArms) : RunArms[k] = subcommand
    THEN IF ~IsOk(parsed) THEN RunOutcome(Some(subcommand), 0, parsed)
         ELSE RunOutcome(Some(subcommand), 1, sent)
    ELSE RunOutcome(None, 0, Err(NotRecognized))

\* The matches run may be given: no subcommand, a subcommand of the command
\* build makes, or one it does not make.
DisplayOrders == {0, 1, 2}
OtherSubcommands == {"put-deploy", "make-transaction"}
Subcommands ==
    {PutTransaction_build(0).subcommands[k].name :
        k \in 1..Len(PutTransaction_build(0).subcommands)}
MatchesValues ==
    [subcommand : {None} \cup {Some(n) : n \in Subcommands \cup OtherSubcommands}]
ParsedValues ==
    {Ok(<<>>), Err(InvalidArgument("parse_rpc_args_and_run", "invalid argument"))}
SentValues == {Ok(<<>>), Err(CliError_Core("FailedToGetResponse"))}

PutBuild(display_order) ==
    /\ put.command = None
    /\ put' = [put EXCEPT !.command = Some(PutTransaction_build(display_order))]
    /\ UNCHANGED <<clock, std_fs_io, builders, results, later, signCalls, fc, fcResult, deploy, deploySigns, calls, deployBuilds, created>>

PutRun(matches, parsed, sent) ==
    /\ put.run = None
    /\ put' = [put EXCEPT !.run =
                  Some([matches |-> matches, parsed |-> parsed.kind,
                        outcome |-> PutTransaction_run(matches, parsed, sent)])]
    /\ UNCHANGED <<clock, std_fs_io, builders, results, later, signCalls, fc, fcResult, deploy, deploySigns, calls, deployBuilds, created>>

NextPut ==
    \/ \E d \in DisplayOrders : PutBuild(d)
    \/ \E m \in MatchesValues, p \in ParsedValues, s \in SentValues : PutRun(m, p, s)

SpecPut == Init /\ [][NextPut]_vars

(***************************************************************************)
(* Properties.                                                             *)
(***************************************************************************)
Built(i) == IsSome(results[i])
B(i) == Unwrap(builders[i])
R(i) == Unwrap(results[i])
BuiltOk(i) == Built(i) /\ IsOk(R(i))
Tx(i) == R(i).val

HasIdentity(b) == IsSome(b.initiator_addr) \/ IsSome(b.secret_key)
FieldsSerialize(b) ==
    IsOk(to_map(FieldsContainer_new(b.args, b.target, b.entry_point, b.scheduling)))

\* C1: build on a builder with neither an initiator address nor a secret key
\* returns Err(MissingInitiatorAddr), whatever else is set or missing.
C1_MissingInitiatorAddrFirst ==
    \A i \in Ids :
        (Built(i) /\ ~HasIdentity(B(i))) => R(i) = Err(MissingInitiatorAddr)

\* A build without identity, without chain name and with a field that does
\* not serialize has returned MissingInitiatorAddr.
C1_Witness ==
    \E i \in Ids :
        /\ Built(i) /\ ~HasIdentity(B(i))
        /\ B(i).chain_name = None
        /\ ~FieldsSerialize(B(i))
        /\ R(i) = Err(MissingInitiatorAddr)

\* C2: build on a builder with an identity but no chain name returns
\* Err(MissingChainName), also when a field would not serialize.
C2_MissingChainNameSecond ==
    \A i \in Ids :
        (Built(i) /\ HasIdentity(B(i)) /\ B(i).chain_name = None)
            => R(i) = Err(MissingChainName)

\* A build with an identity, no chain name and a field that does not
\* serialize has returned MissingChainName.
C2_Witness ==
    \E i \in Ids :
        /\ Built(i) /\ HasIdentity(B(i))
        /\ B(i).chain_name = None
        /\ ~FieldsSerialize(B(i))
        /\ R(i) = Err(MissingChainName)

\* C3: the payload's initiator address is the address given to
\* with_initiator_addr when one was given, and otherwise the
\* InitiatorAddr::PublicKey of the public key of the secret key.
C3_InitiatorAddrResolved ==
    \A i \in Ids :
        BuiltOk(i) =>
            Tx(i).payload.initiator_addr =
                IF IsSome(B(i).initiator_addr)
                THEN Unwrap(B(i).initiator_addr)
                ELSE InitiatorAddr_PublicKey(PublicKeyFrom(Unwrap(B(i).secret_key)))

\* A transaction was built from an address together with the secret key of
\* another account, and carries the address given.
C3_Witness ==
    \E i \in Ids :
        /\ BuiltOk(i)
        /\ IsSome(B(i).initiator_addr) /\ IsSome(B(i).secret_key)
        /\ Unwrap(B(i).initiator_addr) #
                InitiatorAddr_PublicKey(PublicKeyFrom(Unwrap(B(i).secret_key)))
        /\ Tx(i).payload.initiator_addr = Unwrap(B(i).initiator_addr)

\* C4: a transaction returned by build has no approval iff no secret key was
\* set; with a secret key it has exactly one approval, by the public key of
\* that key, whose signature is over the transaction hash.
C4_ApprovalsFollowSecretKey ==
    \A i \in Ids :
        BuiltOk(i) =>
            /\ (Tx(i).approvals = {}) <=> (B(i).secret_key = None)
            /\ IsSome(B(i).secret_key) =>
                Tx(i).approvals =
                    {[signer |-> PublicKeyFrom(Unwrap(B(i).secret_key)),
                      signature |-> Signature(Unwrap(B(i).secret_key), Tx(i).hash)]}

\* A transaction was built from an address and a secret key and carries one
\* approval.
C4_Witness ==
    \E i \in Ids :
        /\ BuiltOk(i)
        /\ IsSome(B(i).initiator_addr) /\ IsSome(B(i).secret_key)
        /\ Cardinality(Tx(i).approvals) = 1

SameButSecretKey(i, j) ==
    /\ BuiltOk(i) /\ BuiltOk(j)
    /\ IsSome(B(i).secret_key) /\ IsSome(B(j).secret_key)
    /\ B(i).secret_key # B(j).secret_key
    /\ [B(i) EXCEPT !.secret_key = B(j).secret_key] = B(j)

\* C6 as stated: two builders identical except for the secret key yield an
\* identical payload and hash, and approval sets that differ.
C6_Original ==
    SameButSecretKey(1, 2) =>
        /\ Tx(1).payload = Tx(2).payload
        /\ Tx(1).hash = Tx(2).hash
        /\ Tx(1).approvals # Tx(2).approvals

\* C6 as amended: two builders identical except for the secret key, both
\* given an initiator address, yield an identical payload and hash, and
\* approval sets that differ.
C6_SameAddrOtherSigner ==
    (SameButSecretKey(1, 2) /\ IsSome(B(1).initiator_addr)) =>
        /\ Tx(1).payload = Tx(2).payload
        /\ PayloadToBytes(Tx(1).payload) = PayloadToBytes(Tx(2).payload)
        /\ Tx(1).hash = Tx(2).hash
        /\ Tx(1).approvals # Tx(2).approvals

\* Two builders with the same address and different secret keys were built.
C6_Witness ==
    /\ SameButSecretKey(1, 2)
    /\ IsSome(B(1).initiator_addr)
    /\ Tx(1).approvals # Tx(2).approvals

\* C7: the hash of a transaction returned by build is the digest of its
\* payload's bytes, whether or not build signed it, and signing it later
\* changes neither the hash nor the payload.
C7_HashOfPayloadOnly ==
    \A i \in Ids :
        BuiltOk(i) =>
            /\ Tx(i).hash = Digest_hash(PayloadToBytes(Tx(i).payload).val)
            /\ IsSome(later[i]) =>
                /\ Unwrap(later[i]).hash = Tx(i).hash
                /\ Unwrap(later[i]).payload = Tx(i).payload

\* A transaction signed by build was signed again by another key: it holds
\* two approvals under the hash of its payload.
C7_Witness ==
    \E i \in Ids :
        /\ BuiltOk(i)
        /\ Cardinality(Tx(i).approvals) = 1
        /\ IsSome(later[i])
        /\ Cardinality(Unwrap(later[i]).approvals) = 2
        /\ Unwrap(later[i]).hash = Digest_hash(PayloadToBytes(Tx(i).payload).val)

Signers(approvals) == {a.signer : a \in approvals}

\* What one signing does to the number of approvals.
SignCounts(before, after, key) ==
    IF PublicKeyFrom(key) \in Signers(before)
    THEN Cardinality(after) = Cardinality(before)
    ELSE Cardinality(after) = Cardinality(before) + 1

\* C8: signing a transaction or a deploy with a key that has not signed it
\* adds exactly one approval; signing with a key that has signed it leaves
\* the number of approvals unchanged.
C8_SignAddsOncePerSigner ==
    [][ /\ \A i \in Ids, k \in SecretKeys :
            Sign(i, k) =>
                SignCounts(Held(i).approvals, Unwrap(later'[i]).approvals, k)
        /\ \A k \in SecretKeys :
            SignDeploy(k) =>
                SignCounts(deploy.approvals, deploy'.approvals, k)
      ]_vars

\* A built transaction and the sample deploy were each signed twice by one
\* signer and each gained one approval.
C8_Witness ==
    /\ BuiltOk(1)
    /\ signCalls[1] = 2
    /\ Cardinality(Signers(Unwrap(later[1]).approvals)) = 1
    /\ Cardinality(Unwrap(later[1]).approvals) = Cardinality(Tx(1).approvals) + 1
    /\ deploySigns = 2
    /\ Cardinality(Signers(deploy.approvals \ SAMPLE_DEPLOY.approvals)) = 1
    /\ Cardinality(deploy.approvals) = Cardinality(SAMPLE_DEPLOY.approvals) + 1

\* The map holds exactly the keys 0..3: the bytes of the args, the target,
\* the entry point and the scheduling of `fields`, in this order.
FourKeys(map, fields) ==
    /\ DOMAIN map = {0, 1, 2, 3}
    /\ Ok(map[0]) = ArgsToBytes(fields.args)
    /\ Ok(map[1]) = TargetToBytes(fields.target)
    /\ Ok(map[2]) = EntryPointToBytes(fields.entry_point)
    /\ Ok(map[3]) = SchedulingToBytes(fields.scheduling)

\* C9: a map returned by to_map has exactly the keys 0, 1, 2 and 3, holding
\* the serialized args, target, entry point and scheduling; every
\* transaction returned by build carries such a map.
C9_ExactlyFourKeys ==
    /\ (IsSome(fcResult) /\ IsOk(Unwrap(fcResult)))
            => FourKeys(Unwrap(fcResult).val, Unwrap(fc))
    /\ \A i \in Ids : BuiltOk(i) => FourKeys(Tx(i).payload.fields, B(i))

\* to_map returned a map for a container, and build returned a transaction
\* for a builder targeting a stored entity with raw-bytes args.
C9_Witness ==
    /\ IsSome(fcResult) /\ IsOk(Unwrap(fcResult))
    /\ Unwrap(fc).scheduling # Standard
    /\ BuiltOk(1)
    /\ B(1).args.tag = "Bytesrepr" /\ B(1).target.tag = "Stored"

\* The keys of the fields of a container that do not serialize.
FailingKeys(fields) ==
    {k \in 0..3 :
        \/ k = 0 /\ ~IsOk(ArgsToBytes(fields.args))
        \/ k = 1 /\ ~IsOk(TargetToBytes(fields.target))
        \/ k = 2 /\ ~IsOk(EntryPointToBytes(fields.entry_point))
        \/ k = 3 /\ ~IsOk(SchedulingToBytes(fields.scheduling))}

\* C10: when a field does not serialize, to_map returns
\* CouldNotSerializeField and no map, and field_index is the lowest key of a
\* field that does not serialize.
C10_FirstFailureNoMap ==
    (IsSome(fcResult) /\ FailingKeys(Unwrap(fc)) # {}) =>
        /\ IsErr(Unwrap(fcResult))
        /\ DOMAIN Unwrap(fcResult) = {"kind", "err"}
        /\ Unwrap(fcResult).err.name = "CouldNotSerializeField"
        /\ Unwrap(fcResult).err.field_index \in FailingKeys(Unwrap(fc))
        /\ \A k \in FailingKeys(Unwrap(fc)) : Unwrap(fcResult).err.field_index <= k

\* to_map was called on a container whose target and scheduling do not
\* serialize and whose args do, and reported key 1.
C10_Witness ==
    /\ IsSome(fcResult)
    /\ FailingKeys(Unwrap(fc)) = {1, 3}
    /\ Unwrap(fcResult).err.field_index = 1

\* The constructor called for builder i, and whether the builder still
\* holds the arguments that constructor encoded.
Ctor(i) == Unwrap(calls[i].ctor)
Constructed(i) == IsSome(calls[i].ctor) /\ Ctor(i).result = "Ok"
Encoded(i, op) == Constructed(i) /\ Ctor(i).op = op /\ calls[i].args = None

NativeOps ==
    {"new_transfer", "new_add_bid", "new_withdraw_bid", "new_delegate",
     "new_undelegate", "new_redelegate", "new_activate_bid",
     "new_change_bid_public_key", "new_add_reservations",
     "new_cancel_reservations"}

NameSet(args) == {args[k].name : k \in 1..Len(args)}
Values(args, name) == {args[k].cl_value : k \in {j \in 1..Len(args) : args[j].name = name}}
If(supplied, name) == IF IsSome(supplied) THEN {name} ELSE {}

\* The names the specification lists for a call: the required ones and the
\* optional ones a value was supplied for.
ListedNames(c) ==
    CASE c.op = "new_transfer" ->
            {"amount", "target"} \cup If(c.params.maybe_source, "source")
                                 \cup If(c.params.maybe_id, "id")
      [] c.op = "new_add_bid" ->
            {"public_key", "delegation_rate", "amount"}
                \cup If(c.params.minimum_delegation_amount, "minimum_delegation_amount")
                \cup If(c.params.maximum_delegation_amount, "maximum_delegation_amount")
                \cup If(c.params.reserved_slots, "reserved_slots")
      [] c.op = "new_withdraw_bid" -> {"public_key", "amount"}
      [] c.op \in {"new_delegate", "new_undelegate"} -> {"delegator", "validator", "amount"}
      [] c.op = "new_redelegate" -> {"delegator", "validator", "amount", "new_validator"}
      [] c.op = "new_activate_bid" -> {"validator"}
      [] c.op = "new_change_bid_public_key" -> {"public_key", "new_public_key"}
      [] c.op = "new_add_reservations" -> {"reservations"}
      [] c.op = "new_cancel_reservations" -> {"validator", "delegators"}

\* C11: the arguments a native operation's encoder returns are named
\* arguments holding exactly the required names of the operation and the
\* optional names a value was supplied for, each name once.
C11_ExactlyListedNames ==
    \A i \in Ids, op \in NativeOps :
        Encoded(i, op) =>
            /\ B(i).args.tag = "Named"
            /\ NameSet(B(i).args.named) = ListedNames(Ctor(i))
            /\ Len(B(i).args.named) = Cardinality(ListedNames(Ctor(i)))

\* A transfer was encoded with a source and an id: four names.
C11_Witness ==
    /\ Encoded(1, "new_transfer")
    /\ IsSome(Ctor(1).params.maybe_source)
    /\ IsSome(Ctor(1).params.maybe_id)
    /\ Len(B(1).args.named) = 4

\* The value of type cl_type a slot holds when it was given v unwrapped.
Bare(cl_type, bytes) == {[cl_type |-> cl_type, bytes |-> bytes]}
Slot(supplied, cl_type, width) ==
    IF IsSome(supplied) THEN Bare(cl_type, LeBytes(Unwrap(supplied), width)) ELSE {}

\* C12: for the optional slots source of a transfer and
\* minimum_delegation_amount, maximum_delegation_amount and reserved_slots
\* of an add-bid, None leaves the name out of the arguments and Some(v) puts
\* the name in with the value v itself, each slot on its own.
C12_OptionalSlotsBareOrAbsent ==
    /\ \A i \in Ids :
        Encoded(i, "new_transfer") =>
            Values(B(i).args.named, "source") =
                IF IsSome(Ctor(i).params.maybe_source)
                THEN Bare("URef", <<Unwrap(Ctor(i).params.maybe_source)>>) ELSE {}
    /\ \A i \in Ids :
        Encoded(i, "new_add_bid") =>
            /\ Values(B(i).args.named, "minimum_delegation_amount") =
                  Slot(Ctor(i).params.minimum_delegation_amount, "U64", 8)
            /\ Values(B(i).args.named, "maximum_delegation_amount") =
                  Slot(Ctor(i).params.maximum_delegation_amount, "U64", 8)
            /\ Values(B(i).args.named, "reserved_slots") =
                  Slot(Ctor(i).params.reserved_slots, "U32", 4)

\* An add-bid was encoded with a maximum and reserved slots and no minimum.
C12_Witness ==
    /\ Encoded(1, "new_add_bid")
    /\ Ctor(1).params.minimum_delegation_amount = None
    /\ IsSome(Ctor(1).params.maximum_delegation_amount)
    /\ IsSome(Ctor(1).params.reserved_slots)
    /\ Len(B(1).args.named) = 5

\* An Option<u64> as a value: the marker 0, or the marker 1 and the number.
Wrapped(o) ==
    [cl_type |-> "Option<U64>",
     bytes |-> IF IsSome(o) THEN <<1>> \o LeBytes(Unwrap(o), 8) ELSE <<0>>]

\* C13 as stated: the arguments of a transfer hold "id" with the wrapped
\* id, also when the id is None (a wrapped-absent value).
C13_Original ==
    \A i \in Ids :
        Encoded(i, "new_transfer") =>
            Values(B(i).args.named, "id") = {Wrapped(Ctor(i).params.maybe_id)}

\* C13: the arguments of a transfer hold "id" exactly when the id is
\* Some(n), and then with the wrapped value Some(n); a transfer whose id is
\* None has no "id" among its arguments.
C13_IdWrappedWhenSome ==
    \A i \in Ids :
        Encoded(i, "new_transfer") =>
            Values(B(i).args.named, "id") =
                IF IsSome(Ctor(i).params.maybe_id)
                THEN {Wrapped(Ctor(i).params.maybe_id)} ELSE {}

\* A transfer with the id Some(9) was encoded, and "id" holds Some(9).
C13_Witness ==
    /\ Encoded(1, "new_transfer")
    /\ Ctor(1).params.maybe_id = Some(9)
    /\ Values(B(1).args.named, "id") = {Wrapped(Some(9))}

\* The step in which a constructor returned builder i.
Returned(i) ==
    /\ calls[i].ctor = None
    /\ IsSome(calls'[i].ctor)
    /\ Unwrap(calls'[i].ctor).result = "Ok"

NativeEntryPoint(op) ==
    CASE op = "new_transfer" -> Transfer
      [] op = "new_add_bid" -> AddBid
      [] op = "new_withdraw_bid" -> WithdrawBid
      [] op = "new_delegate" -> Delegate
      [] op = "new_undelegate" -> Undelegate
      [] op = "new_redelegate" -> Redelegate
      [] op = "new_activate_bid" -> ActivateBid
      [] op = "new_change_bid_public_key" -> ChangeBidPublicKey
      [] op = "new_add_reservations" -> AddReservations
      [] op = "new_cancel_reservations" -> CancelReservations

StoredOps ==
    {"new_targeting_invocable_entity", "new_targeting_invocable_entity_via_alias",
     "new_targeting_package", "new_targeting_package_via_alias"}

\* The invocation target a stored-target constructor is to make of its
\* parameters: the variant, the hash or alias, the version.
StoredId(c) ==
    CASE c.op = "new_targeting_invocable_entity" -> <<0, c.params.hash, 0>>
      [] c.op = "new_targeting_invocable_entity_via_alias" -> <<1, c.params.alias, 0>>
      [] c.op = "new_targeting_package" ->
            <<2, c.params.hash, VersionToBytes(c.params.version)>>
      [] c.op = "new_targeting_package_via_alias" ->
            <<3, c.params.alias, VersionToBytes(c.params.version)>>

ConstructedAs(c, b) ==
    /\ b.scheduling = Standard
    /\ c.op \in NativeOps =>
        /\ b.target = Native
        /\ b.entry_point = NativeEntryPoint(c.op)
    /\ c.op \in StoredOps =>
        /\ b.target = Stored(StoredId(c), c.params.runtime)
        /\ b.entry_point = Custom(c.params.entry_point)
        /\ b.args = Named(<<>>)
    /\ c.op = "new_session" =>
        /\ b.target = Session(c.params.is_install_upgrade, c.params.module_bytes,
                              c.params.runtime)
        /\ b.entry_point = Call
        /\ b.args = Named(<<>>)

\* C14: the builder a named constructor returns has standard scheduling and:
\* for the ten native operations the target Native and the entry point of
\* the operation's name; for the four stored-target constructors the target
\* Stored{id, runtime} of its parameters, the entry point Custom(name) and
\* empty named args; for new_session the target Session of its parameters,
\* the entry point Call and empty named args.
C14_ConstructorSetsFields ==
    [][\A i \in Ids : Returned(i) => ConstructedAs(Ctor(i)', B(i)')]_vars

\* A package was targeted by alias with a version and the second runtime.
C14_Witness ==
    /\ Constructed(1)
    /\ Ctor(1).op = "new_targeting_package_via_alias"
    /\ IsSome(Ctor(1).params.version)
    /\ B(1).target = Stored(<<3, 2, 1>>, VmCasperV2)
    /\ B(1).entry_point.tag = "Custom"

\* C15: the builder any constructor returns has no chain name, no initiator
\* address and no secret key, the time to live of 30 minutes (1,800,000 ms)
\* and the pricing mode Fixed with gas price tolerance 5 and additional
\* computation factor 0; build called on it as it is returns
\* Err(MissingInitiatorAddr).
C15_FreshDefaults ==
    [][\A i \in Ids :
        Returned(i) =>
            /\ B(i)'.chain_name = None
            /\ B(i)'.initiator_addr = None
            /\ B(i)'.secret_key = None
            /\ B(i)'.ttl = 1800000
            /\ B(i)'.pricing_mode =
                  [tag |-> "Fixed", gas_price_tolerance |-> 5,
                   additional_computation_factor |-> 0]
            /\ build(B(i)') = Err(MissingInitiatorAddr)]_vars

\* build was called on a builder no setter had been called on.
C15_Witness ==
    /\ Built(1)
    /\ B(1).chain_name = None
    /\ B(1).initiator_addr = None
    /\ B(1).secret_key = None
    /\ B(1).ttl = 1800000
    /\ R(1) = Err(MissingInitiatorAddr)

\* The timestamp the last with_timestamp call passed, if there was a call.
Stamped(i) == calls[i].timestamp

C17_LastArgsWin ==
    \A i \in Ids :
        IsSome(calls[i].args) =>
            /\ IsSome(builders[i])
            /\ B(i).args = Unwrap(calls[i].args)

\* A transfer's constructor encoded its arguments, and the last call then
\* set the empty named arguments: none of the transfer's are left.
C17_Witness ==
    /\ Constructed(1)
    /\ Ctor(1).op = "new_transfer"
    /\ calls[1].args = Some(Named(RuntimeArgs_new))
    /\ B(1).args.tag = "Named"
    /\ Len(B(1).args.named) = 0

\* C18: in every transaction build returns, the bytes under the keys 0, 1,
\* 2 and 3 of the payload's fields decode, each on its own, to the args,
\* the target, the entry point and the scheduling of the builder build was
\* called on.
C18_FieldsRoundTrip ==
    \A i \in Ids :
        BuiltOk(i) =>
            /\ ArgsFromBytes(Tx(i).payload.fields[ARGS_MAP_KEY]) = Ok(B(i).args)
            /\ TargetFromBytes(Tx(i).payload.fields[TARGET_MAP_KEY]) = Ok(B(i).target)
            /\ EntryPointFromBytes(Tx(i).payload.fields[ENTRY_POINT_MAP_KEY]) =
                  Ok(B(i).entry_point)
            /\ SchedulingFromBytes(Tx(i).payload.fields[SCHEDULING_MAP_KEY]) =
                  Ok(B(i).scheduling)

\* An add-bid with every optional slot was built: six named arguments, the
\* native target and the entry point AddBid come back from the bytes.
C18_Witness ==
    /\ BuiltOk(1)
    /\ Encoded(1, "new_add_bid")
    /\ Len(B(1).args.named) = 6
    /\ IsOk(ArgsFromBytes(Tx(1).payload.fields[ARGS_MAP_KEY]))
    /\ Len(ArgsFromBytes(Tx(1).payload.fields[ARGS_MAP_KEY]).val.named) = 6
    /\ EntryPointFromBytes(Tx(1).payload.fields[ENTRY_POINT_MAP_KEY]) = Ok(AddBid)

\* The DeployBuilder build was called on, and what build returned.
DeployBuilt == IsSome(deployBuilds.result)
DB == Unwrap(deployBuilds.builder)
DR == Unwrap(deployBuilds.result)

Cli == Unwrap(deployBuilds.cli)
CliWithoutAccount ==
    /\ IsSome(deployBuilds.cli)
    /\ Cli.allow_unsigned_deploy
    /\ Cli.deploy_params.session_account = None
    /\ Cli.deploy_params.secret_key = None

\* C20: build on a DeployBuilder with neither an account nor a secret key
\* returns Err(DeployMissingSessionAccount), with or without payment and
\* session items; with_payment_and_session and new_transfer, called with
\* neither of the two while unsigned deploys are allowed, return that error
\* (as a core DeployBuild error).
C20_NoAccountNoDeploy ==
    /\ (DeployBuilt /\ DB.account = None /\ DB.secret_key = None) =>
            DR = Err(DeployMissingSessionAccount)
    /\ CliWithoutAccount =>
            Cli.result =
                Err(CliError_Core(Error_DeployBuild(DeployMissingSessionAccount)))

\* build was called on a builder with both items and no account or key, and
\* a transfer deploy was asked for without account or key.
C20_Witness ==
    /\ DeployBuilt
    /\ IsSome(DB.session) /\ IsSome(DB.payment)
    /\ DB.account = None /\ DB.secret_key = None
    /\ DR = Err(DeployMissingSessionAccount)
    /\ CliWithoutAccount
    /\ Cli.op = "new_transfer"

DeployAccountOf(b) ==
    IF IsSome(b.account) THEN Unwrap(b.account)
    ELSE PublicKeyFrom(Unwrap(b.secret_key))
DeploySizeOf(b) ==
    1 + (1 + 8 + 8 + Len(BytesToBytes(b.chain_name).val) + 1)
    + ItemSerializedLength(Unwrap(b.payment)) + ItemSerializedLength(Unwrap(b.session))
    + 1 + (IF IsSome(b.secret_key) THEN 2 ELSE 0)
Complete(b) ==
    /\ IsSome(b.session) /\ IsSome(b.payment)
    /\ (IsSome(b.account) \/ IsSome(b.secret_key))

\* A call of the cli that may return an unsigned deploy, with a session
\* account and no secret key, and the size of the deploy it asks for.
CliUnsigned ==
    /\ IsSome(deployBuilds.cli)
    /\ Cli.allow_unsigned_deploy
    /\ IsSome(Cli.deploy_params.session_account)
    /\ Cli.deploy_params.secret_key = None
CliSize ==
    1 + (1 + 8 + 8 + Len(BytesToBytes(Cli.deploy_params.chain_name).val) + 1)
    + ItemSerializedLength(Cli.payment) + ItemSerializedLength(Cli.session)
    + 1 + (IF IsSome(Cli.deploy_params.secret_key) THEN 2 ELSE 0)

\* C22: build on a DeployBuilder with a session item, a payment item and an
\* account or a secret key, whose deploy is no larger than the maximum,
\* returns Ok; the account of the header is the account supplied (the
\* public key of the secret key where only that was supplied), the items are
\* those supplied, and without a secret key there is no approval.  The same
\* holds of with_payment_and_session and new_transfer called with a session
\* account and no secret key while unsigned deploys are allowed.
C22_CompleteBuilderBuilds ==
    /\ (DeployBuilt /\ Complete(DB)
            /\ DeploySizeOf(DB) <= MAX_SERIALIZED_SIZE_OF_DEPLOY) =>
            /\ IsOk(DR)
            /\ DR.val.header.account = DeployAccountOf(DB)
            /\ DR.val.payment = Unwrap(DB.payment)
            /\ DR.val.session = Unwrap(DB.session)
            /\ (DB.secret_key = None => DR.val.approvals = {})
    /\ (CliUnsigned /\ CliSize <= MAX_SERIALIZED_SIZE_OF_DEPLOY) =>
            /\ IsOk(Cli.result)
            /\ Cli.result.val.header.account = Unwrap(Cli.deploy_params.session_account)
            /\ Cli.result.val.approvals = {}

\* An unsigned deploy of exactly the maximum size was built for an account
\* that is not the one of any secret key supplied, and an unsigned transfer
\* was returned by the cli.
C22_Witness ==
    /\ DeployBuilt /\ Complete(DB)
    /\ DB.secret_key = None
    /\ DeploySizeOf(DB) = MAX_SERIALIZED_SIZE_OF_DEPLOY
    /\ IsOk(DR)
    /\ DR.val.header.account = Unwrap(DB.account)
    /\ DR.val.approvals = {}
    /\ CliUnsigned
    /\ Cli.op = "new_transfer"
    /\ IsOk(Cli.result)
    /\ Cli.result.val.approvals = {}

\* build was called on a builder with both an account and the secret key of
\* another account; the header has the account.
C22_WitnessBoth ==
    /\ DeployBuilt /\ Complete(DB)
    /\ IsSome(DB.account) /\ IsSome(DB.secret_key)
    /\ Unwrap(DB.account) # PublicKeyFrom(Unwrap(DB.secret_key))
    /\ IsOk(DR)
    /\ DR.val.header.account = Unwrap(DB.account)

\* A call of the cli that gets as far as building: it has a secret key, or
\* it may return an unsigned deploy and has a session account.
CliBuilds ==
    /\ IsSome(deployBuilds.cli)
    /\ \/ IsSome(Cli.deploy_params.secret_key)
       \/ Cli.allow_unsigned_deploy /\ IsSome(Cli.deploy_params.session_account)

Created == Unwrap(created)

\* C24: with_payment_and_session and new_transfer, called without a secret
\* key while unsigned deploys are not allowed, return the InvalidArgument
\* error whose context is the name of the function, with or without a
\* session account; create_transaction, called without a secret key while
\* unsigned transactions are not allowed, returns the InvalidArgument error
\* of context "create_transaction", with or without an initiator address.
\* No deploy and no transaction comes back.
C24_NoUnsignedOutputUnlessAllowed ==
    /\ (/\ IsSome(deployBuilds.cli)
        /\ ~Cli.allow_unsigned_deploy
        /\ Cli.deploy_params.secret_key = None) =>
            /\ Cli.result = Err(InvalidArgument(Cli.op, NO_SECRET_KEY))
            /\ Cli.op \in {"with_payment_and_session", "new_transfer"}
            /\ DOMAIN Cli.result = {"kind", "err"}
    /\ (/\ IsSome(created)
        /\ ~Created.allow_unsigned_transaction
        /\ Created.transaction_params.secret_key = None) =>
            /\ Created.result =
                 Err(InvalidArgument("create_transaction", NO_SECRET_KEY_FOR_TRANSACTION))
            /\ DOMAIN Created.result = {"kind", "err"}

\* new_transfer was called with a session account and create_transaction
\* with an initiator address, both without a secret key and with unsigned
\* output not allowed.
C24_Witness ==
    /\ IsSome(deployBuilds.cli)
    /\ Cli.op = "new_transfer"
    /\ ~Cli.allow_unsigned_deploy
    /\ Cli.deploy_params.secret_key = None
    /\ IsSome(Cli.deploy_params.session_account)
    /\ Cli.result.err.name = "InvalidArgument"
    /\ IsSome(created)
    /\ ~Created.allow_unsigned_transaction
    /\ Created.transaction_params.secret_key = None
    /\ IsSome(Created.transaction_params.initiator_addr)
    /\ Created.builder_params.variant = "AddBid"
    /\ Created.result.err.context = "create_transaction"

\* with_payment_and_session was called with a session account, without a
\* secret key and with unsigned deploys not allowed.
C24_WitnessWithPaymentAndSession ==
    /\ IsSome(deployBuilds.cli)
    /\ Cli.op = "with_payment_and_session"
    /\ ~Cli.allow_unsigned_deploy
    /\ Cli.deploy_params.secret_key = None
    /\ IsSome(Cli.deploy_params.session_account)
    /\ Cli.result = Err(InvalidArgument("with_payment_and_session", NO_SECRET_KEY))

\* create_transaction returned an unsigned transaction where that was
\* allowed.
C24_WitnessAllowed ==
    /\ IsSome(created)
    /\ IsOk(Created.result)
    /\ Created.transaction_params.secret_key = None
    /\ Created.result.val.approvals = {}

\* What FieldsContainer::to_map returns for the four fields of a builder.
ToMapOf(b) == to_map(FieldsContainer_new(b.args, b.target, b.entry_point, b.scheduling))

\* C25: build on a builder with an identity and a chain name, one of whose
\* fields does not serialize, returns Err(CouldNotSerializeField) with the
\* field_index that FieldsContainer::to_map reports for its fields, the
\* lowest key of a field that does not serialize.  The result holds no
\* transaction: no payload, no hash, no approval.
C25_FieldFailurePropagated ==
    \A i \in Ids :
        (/\ Built(i)
         /\ HasIdentity(B(i))
         /\ IsSome(B(i).chain_name)
         /\ ~FieldsSerialize(B(i))) =>
            /\ R(i) = Err(BuilderCouldNotSerializeField(ToMapOf(B(i)).err.field_index))
            /\ Unwrap(R(i).err.field_index) \in FailingKeys(B(i))
            /\ \A k \in FailingKeys(B(i)) : Unwrap(R(i).err.field_index) <= k
            /\ DOMAIN R(i) = {"kind", "err"}

\* build was called on a builder with an address, a secret key and a chain
\* name whose target and entry point do not serialize while its args do; it
\* returned the key of the target.
C25_Witness ==
    /\ Built(1)
    /\ IsSome(B(1).initiator_addr) /\ IsSome(B(1).secret_key)
    /\ IsSome(B(1).chain_name)
    /\ FailingKeys(B(1)) = {TARGET_MAP_KEY, ENTRY_POINT_MAP_KEY}
    /\ R(1) = Err(BuilderCouldNotSerializeField(TARGET_MAP_KEY))

\* The payload of the transaction build returned holds the chain name, the
\* timestamp, the time to live and the pricing mode of the builder.
PayloadOfBuilder(i) ==
    /\ Tx(i).payload.chain_name = Unwrap(B(i).chain_name)
    /\ Tx(i).payload.timestamp = B(i).timestamp
    /\ Tx(i).payload.ttl = B(i).ttl
    /\ Tx(i).payload.pricing_mode = B(i).pricing_mode

\* C26: whenever build returns Ok the payload holds the chain name, the
\* timestamp, the time to live and the pricing mode the builder had when
\* build was called, and build returns Ok exactly when the builder has an
\* identity and a chain name and its four fields serialize.
C26_OkExactlyWhenComplete ==
    \A i \in Ids :
        Built(i) =>
            /\ IsOk(R(i)) <=>
                    (/\ HasIdentity(B(i))
                     /\ IsSome(B(i).chain_name)
                     /\ FieldsSerialize(B(i)))
            /\ IsOk(R(i)) => PayloadOfBuilder(i)

\* What holds of build: Ok comes only from a complete builder and carries
\* the builder's values, a complete builder whose chain name serializes is
\* built Ok, and a complete builder whose chain name does not serialize
\* makes build panic.
C26_OkUnlessPayloadFails ==
    \A i \in Ids :
        Built(i) =>
            /\ IsOk(R(i)) =>
                    /\ HasIdentity(B(i)) /\ IsSome(B(i).chain_name)
                    /\ FieldsSerialize(B(i))
                    /\ PayloadOfBuilder(i)
            /\ (/\ HasIdentity(B(i)) /\ IsSome(B(i).chain_name)
                /\ FieldsSerialize(B(i))) =>
                    IF IsOk(BytesToBytes(Unwrap(B(i).chain_name)))
                    THEN IsOk(R(i))
                    ELSE R(i) = Panic("should serialize body")

\* build was called on a complete builder whose chain name does not
\* serialize.
C26_PanicReached ==
    /\ Built(1)
    /\ HasIdentity(B(1)) /\ B(1).chain_name = Some(HugeBytes)
    /\ FieldsSerialize(B(1))
    /\ R(1).kind = "Panic"

\* A constructor was called and failed; a value it was given does not encode.
Failed(i) == IsSome(calls[i].ctor) /\ Ctor(i).result = "Err"
SomeValueFails(c) ==
    \/ c.op = "new_add_reservations" /\ ~IsOk(BytesToBytes(c.params.reservations))
    \/ c.op = "new_cancel_reservations" /\ ~IsOk(BytesToBytes(c.params.delegators))

\* What the argument encoder returns for the parameters of a call of one of
\* the two constructors that take a list.
EncoderResult(c) ==
    IF c.op = "new_add_reservations"
    THEN new_add_reservations_args(c.params.reservations)
    ELSE new_cancel_reservations_args(c.params.validator, c.params.delegators)

\* The errors the argument encoder returns when the slot "delegators" fails.
DelegatorsErrors ==
    {new_cancel_reservations_args(k, d).err :
        k \in PublicKeys, d \in {x \in DelegatorLists : ~IsOk(BytesToBytes(x))}}

\* What C27 says of every constructor: it fails exactly when a value does
\* not encode, which only a native constructor's can; it then returns the
\* error of the encoder, which returns no container, and no builder.
OnlyEncodingFails(i) ==
    /\ Failed(i) <=> SomeValueFails(Ctor(i))
    /\ Failed(i) =>
        /\ Ctor(i).op \in NativeOps
        /\ builders[i] = None
        /\ EncoderResult(Ctor(i)) = Err(Unwrap(Ctor(i).err))
        /\ DOMAIN EncoderResult(Ctor(i)) = {"kind", "err"}
    /\ Ctor(i).op \in StoredOps \cup {"new_session"} => Constructed(i)

\* The statement of C27 as it was made: the above, and the error names the
\* slot that failed, so that the error of a failure of "reservations" is not
\* the error of a failure of "delegators".
C27_Original ==
    \A i \in Ids :
        IsSome(calls[i].ctor) =>
            /\ OnlyEncodingFails(i)
            /\ (Failed(i) /\ Ctor(i).op = "new_add_reservations") =>
                    Unwrap(Ctor(i).err) \notin DelegatorsErrors

\* C27: when a value does not encode, the argument encoder returns the
\* serialization error of the value (a CLValueError, the same for every
\* slot) and no container, not even one of the slots encoded before; the
\* native constructor returns that error and no builder; a constructor fails
\* in no other case, and the stored-target and session constructors never.
C27_EncodingFailureOnly ==
    \A i \in Ids :
        IsSome(calls[i].ctor) =>
            /\ OnlyEncodingFails(i)
            /\ Failed(i) => Ctor(i).err = Some("CLValueError::Serialization")

\* new_cancel_reservations was called with a validator, which encodes, and
\* delegators that do not, and failed.
C27_Witness ==
    /\ Failed(1)
    /\ Ctor(1).op = "new_cancel_reservations"
    /\ ~IsOk(BytesToBytes(Ctor(1).params.delegators))
    /\ builders[1] = None
    /\ Ctor(1).err = Some("CLValueError::Serialization")

\* A stored-target constructor was given an entry point name, and the
\* session constructor module bytes, that do not serialize, and returned a
\* builder.
C27_WitnessStored ==
    /\ Constructed(1)
    /\ \/ Ctor(1).op \in StoredOps /\ Ctor(1).params.entry_point = HugeBytes
       \/ Ctor(1).op = "new_session" /\ Ctor(1).params.module_bytes = HugeBytes

\* The fields of a builder, and those that a step changes in builder i.
BuilderFields == DOMAIN TransactionV1Builder_new
Changed(i) == {f \in BuilderFields : B(i)[f] # B(i)'[f]}

\* A step in which builder i, and nothing else of the builders, is given the
\* value for the field and keeps every other field.
OnlySets(i, field, value) ==
    /\ Changed(i) \subseteq {field}
    /\ B(i)'[field] = value
    /\ \A j \in Ids \ {i} : builders'[j] = builders[j]

\* A builder that is complete and serializes, whose entry point does not go
\* with its target.
Mismatched(b) ==
    /\ HasIdentity(b) /\ IsSome(b.chain_name)
    /\ IsOk(BytesToBytes(Unwrap(b.chain_name)))
    /\ FieldsSerialize(b)
    /\ \/ b.target.tag = "Native" /\ b.entry_point.tag \in {"Custom", "Call"}
       \/ b.target.tag = "Stored" /\ b.entry_point.tag # "Custom"
       \/ b.target.tag = "Session" /\ b.entry_point.tag # "Call"

\* C28: each setter changes the field it names to the value it is given and
\* no other field of the builder (and no other builder); with_entry_point
\* leaves target and args as they were; and build looks for no agreement of
\* entry point, target and args: a complete builder that serializes is built
\* into a transaction that holds its fields, whatever they are.
C28_SettersChangeOneField ==
    [][ \A i \in Ids :
        /\ (IsSome(builders[i]) /\ builders'[i] # builders[i]) =>
            /\ \A c \in ChainNames :
                    WithChainName(i, c) => OnlySets(i, "chain_name", Some(c))
            /\ \A t \in Timestamps : WithTimestamp(i, t) => OnlySets(i, "timestamp", t)
            /\ \A t \in Ttls : WithTtl(i, t) => OnlySets(i, "ttl", t)
            /\ \A p \in PricingModes :
                    WithPricingMode(i, p) => OnlySets(i, "pricing_mode", p)
            /\ \A a \in InitiatorAddrs :
                    WithInitiatorAddr(i, a) => OnlySets(i, "initiator_addr", Some(a))
            /\ \A k \in SecretKeys :
                    WithSecretKey(i, k) => OnlySets(i, "secret_key", Some(k))
            /\ \A a \in RuntimeArgsValues :
                    WithRuntimeArgs(i, a) => OnlySets(i, "args", Named(a))
            /\ \A a \in ChunkedArgsValues :
                    WithChunkedArgs(i, a) => OnlySets(i, "args", Bytesrepr(a))
            /\ \A e \in EntryPoints :
                    WithEntryPoint(i, e) =>
                        /\ OnlySets(i, "entry_point", e)
                        /\ B(i)'.target = B(i).target
                        /\ B(i)'.args = B(i).args
            /\ Cardinality(Changed(i)) = 1
        /\ (results[i] = None /\ IsSome(results'[i])) =>
            /\ builders' = builders
            /\ Mismatched(B(i)) =>
                /\ IsOk(R(i)')
                /\ Tx(i)'.payload.fields = ToMapOf(B(i)).val
      ]_vars

\* A builder targeting a stored entity was given the entry point Transfer
\* and kept its target; it was built into a transaction.
C28_Witness ==
    /\ BuiltOk(1)
    /\ B(1).target.tag = "Stored"
    /\ B(1).entry_point = Transfer
    /\ B(1).args.tag = "Bytesrepr"
    /\ Mismatched(B(1))

\* A step that calls a setter or build on builder j.
ActsOn(j) ==
    \/ IsSome(builders[j]) /\ builders'[j] # builders[j]
    \/ results'[j] # results[j]

\* C29: a setter or build step on one builder leaves the other builder, and
\* what build returned for it, as they were; and what build returns is
\* decided by the builder it is called on alone: whenever the two builders
\* hold the same parameters when built, however their steps were interleaved
\* and whichever was built first, both builds return the same payload, hash
\* and approvals, or the same error.
C29_BuildersIndependent ==
    [][ /\ \A i \in Ids : \A j \in Ids \ {i} :
            ActsOn(j) =>
                /\ builders'[i] = builders[i]
                /\ results'[i] = results[i]
                /\ calls'[i] = calls[i]
        /\ (Built(1) /\ Built(2) /\ B(1) = B(2))' => (R(1) = R(2))'
        /\ \A i \in Ids :
            (results[i] = None /\ IsSome(results'[i])) =>
                \/ ~IsOk(R(i)')
                \/ /\ Tx(i)'.payload.chain_name = Unwrap(B(i).chain_name)
                   /\ Tx(i)'.payload.timestamp = B(i).timestamp
                   /\ Tx(i)'.payload.initiator_addr =
                        initiator_addr(IF IsSome(B(i).initiator_addr)
                                       THEN InitiatorAddrOnly(Unwrap(B(i).initiator_addr))
                                       ELSE SecretKeyOnly(Unwrap(B(i).secret_key)))
                   /\ Tx(i)'.approvals =
                        IF IsSome(B(i).secret_key)
                        THEN {Approval_create(Tx(i)'.hash, Unwrap(B(i).secret_key))}
                        ELSE {}
      ]_vars

\* Two builders made at different times and given the same parameters, a
\* secret key among them, were both built into the same signed transaction.
C29_Witness ==
    /\ BuiltOk(1) /\ BuiltOk(2)
    /\ B(1) = B(2)
    /\ IsSome(B(1).secret_key)
    /\ Ctor(1).at < Ctor(2).at
    /\ R(1) = R(2)
    /\ Cardinality(Tx(2).approvals) = 1

\* The two builders were given different parameters and built into
\* different transactions.
C29_WitnessDifferent ==
    /\ BuiltOk(1) /\ BuiltOk(2)
    /\ B(1).secret_key # B(2).secret_key
    /\ Tx(1).hash # Tx(2).hash

\* The call of run, and the names of the subcommands build registered.
Run == Unwrap(put.run)
Registered ==
    {Unwrap(put.command).subcommands[k].name :
        k \in 1..Len(Unwrap(put.command).subcommands)}

\* C30: build registers fifteen subcommands, and run given one of them hands
\* its matches to the run of the same module: it never returns the error of
\* an unrecognized subcommand, and it calls put_transaction once unless the
\* arguments fail to parse.  Given a subcommand that is none of them, or no
\* subcommand, run returns InvalidArgument ("Make Transaction", "Put
\* Transaction") and does not call put_transaction.
C30_RegisteredSubcommandsDispatched ==
    (IsSome(put.command) /\ IsSome(put.run)) =>
        /\ Cardinality(Registered) = 15
        /\ Len(Unwrap(put.command).subcommands) = 15
        /\ (IsSome(Run.matches.subcommand)
                /\ Unwrap(Run.matches.subcommand) \in Registered) =>
            /\ Run.outcome.handler = Run.matches.subcommand
            /\ Run.outcome.result # Err(NotRecognized)
            /\ Run.outcome.put_transaction = (IF Run.parsed = "Ok" THEN 1 ELSE 0)
        /\ (IsSome(Run.matches.subcommand)
                /\ Unwrap(Run.matches.subcommand) \notin Registered) =>
            /\ Run.outcome.result = Err(NotRecognized)
            /\ Run.outcome.result.err.name = "InvalidArgument"
            /\ Run.outcome.put_transaction = 0
        /\ Run.matches.subcommand = None =>
            /\ Run.outcome.result = Err(NotSupplied)
            /\ Run.outcome.result.err.name = "InvalidArgument"
            /\ Run.outcome.put_transaction = 0

\* run was given the subcommand registered last, transfer, with arguments
\* that parse, and called put_transaction.
C30_Witness ==
    /\ IsSome(put.command) /\ IsSome(put.run)
    /\ Run.matches.subcommand = Some("transfer")
    /\ "transfer" \in Registered
    /\ Run.outcome.handler = Some("transfer")
    /\ Run.outcome.put_transaction = 1

\* run was given a subcommand that build does not register.
C30_WitnessNotRecognized ==
    /\ IsSome(put.command) /\ IsSome(put.run)
    /\ IsSome(Run.matches.subcommand)
    /\ Unwrap(Run.matches.subcommand) \notin Registered
    /\ Run.outcome.result = Err(NotRecognized)

====
